---- MODULE Spec2Model ----
(***************************************************************************)
(* Dirble scan pipeline: the scheduler of src/src/lib.rs (dirble_main,     *)
(* add_dir_to_scan_queue, generate_end), the Finding constructors of       *)
(* src/src/request.rs, and the threads dirble_main talks to over its three *)
(* mpsc channels (request workers, validator, output sink).                *)
(*                                                                         *)
(* URLs are sequences of strings: the host followed by the path segments   *)
(* as Url::path_segments yields them, so a URL ending in '/' ends with the *)
(* empty segment: http://h0/ is <<"h0", "">>, http://h0/w0 is              *)
(* <<"h0", "w0">>.  The reserved data: URLs are one-element sequences.     *)
(***************************************************************************)
EXTENDS Integers, Sequences, FiniteSets, TLC

VARIABLES
    max_threads,      \* global_opts.max_threads (u32)
    wordlist_split,   \* global_opts.wordlist_split (u32)
    hostnames,        \* global_opts.hostnames
    prefixes,         \* global_opts.prefixes
    extensions,       \* global_opts.extensions
    disable_validator,\* run-wide option: the validator attaches no profile
    pc,               \* position of dirble_main
    boot_i,           \* loop index of the two bootstrap loops
    scan_queue,       \* VecDeque<UriGenerator>
    threads_in_use,   \* busy-worker counter (u32)
    caught_ctrl_c,    \* AtomicBool set by the ctrlc handler
    to_validate,      \* channel workers/scheduler -> validator
    to_scan,          \* channel validator -> scheduler
    output,           \* channel workers/scheduler -> output thread; of a
                      \* Finding it keeps the url the output thread tests
    workers,          \* running request threads
    profiles,         \* validator thread: per-host calibration result
    validator_done,   \* validator thread has returned
    output_done,      \* output thread has returned
    call              \* the last application of a pure function (its inputs)

vars == <<max_threads, wordlist_split, hostnames, prefixes, extensions,
          disable_validator, pc,
          boot_i, scan_queue, threads_in_use, caught_ctrl_c, to_validate,
          to_scan, output, workers, profiles, validator_done, output_done,
          call>>

\* What the threads of dirble_main never write: the options of the run (and the
\* record of pure-function applications)
config == <<max_threads, wordlist_split, hostnames, prefixes, extensions,
            disable_validator, call>>

-----------------------------------------------------------------------------
(* Bounds of the model *)

MaxThreads == 4
MaxSplit == 2
MaxHosts == 2
WordlistLen == 2
MaxDirDepth == 1
MaxBootGenerators == 2

\* Bounds of the inputs of add_dir_to_scan_queue taken alone
EnqMaxThreads == 6
EnqMaxSplit == 3
EnqMaxHosts == 3
EnqMaxPrefixes == 2
EnqMaxExtensions == 2
EnqMaxQueue == 4
EnqPositions == 8

\* Bounds of the lines read from the wordlist files
MaxLines == 2
MaxWordLen == 3

\* Bounds of the URLs and answers given to make_request
MaxPathLen == 3
MaxDestLen == 3

\* Bounds of the site walked by listable_check: the levels of directories that
\* answer, the values of max_recursion_depth and of parent_depth
MaxLevels == 3
MaxRecursion == 4
MaxParentDepth == 1

\* Bounds of the Findings given to the output formatting
MaxShownPathLen == 5
MaxShownParentDepth == 5

\* u32::MAX.  TLC's integers are 32-bit signed, so the largest of them stands
\* for it; the wrapping operators below are exact in terms of U32Max.
U32Max == 2147483647

\* u32 subtraction as a release build computes it (wrapping)
wrapping_sub(a, b) == IF a >= b THEN a - b ELSE U32Max - (b - a - 1)

\* u32 addition as a release build computes it (wrapping)
wrapping_add(a, b) == IF a <= U32Max - b THEN a + b ELSE a - (U32Max - b) - 1

\* The i-th configured host (host_index i - 1): http://h0/, http://h1/app/, ...
HostUrl(i) ==
    IF i % 2 = 1 THEN <<"h" \o ToString(i - 1), "">>
    ELSE <<"h" \o ToString(i - 1), "app", "">>

Hostnames(n) == [i \in 1..n |-> HostUrl(i)]

\* global_opts.prefixes and global_opts.extensions: the empty one first
Prefixes(n) == [i \in 1..n |-> IF i = 1 THEN "" ELSE "p" \o ToString(i - 1)]

Extensions(n) == [i \in 1..n |-> IF i = 1 THEN "" ELSE ".e" \o ToString(i - 1)]

\* The normalised wordlist: sorted, without duplicates
wordlist == [i \in 1..WordlistLen |-> "w" \o ToString(i - 1)]

-----------------------------------------------------------------------------
(* Findings (request::RequestResponse) *)

END_URL == <<"data:END">>

MAIN_ENDING_URL == <<"data:MAIN ENDING">>

NoValidator == [some |-> FALSE, scan_folder |-> FALSE]

SomeValidator(scan) == [some |-> TRUE, scan_folder |-> scan]

RequestResponse(url, code, is_directory, is_listable, redirect_url, found_from_listable) ==
    [url |-> url, code |-> code, content_len |-> 0,
     is_directory |-> is_directory, is_listable |-> is_listable,
     redirect_url |-> redirect_url, found_from_listable |-> found_from_listable,
     parent_index |-> 0, parent_depth |-> 0]

\* fabricate_request_response that drops its is_directory argument
FabricateNotDirectory(url, is_directory, is_listable) ==
    RequestResponse(url, 0, FALSE, is_listable, <<>>, TRUE)

\* fabricate_request_response marking the entry as probed
FabricateAsProbed(url, is_directory, is_listable) ==
    RequestResponse(url, 0, is_directory, is_listable, <<>>, FALSE)

fabricate_request_response(url, is_directory, is_listable) ==
    RequestResponse(url, 0, is_directory, is_listable, <<>>, TRUE)

generate_end ==
    RequestResponse(MAIN_ENDING_URL, 0, FALSE, FALSE, <<>>, FALSE)

\* Url::path_segments().count()
path_segments_count(url) == Len(url) - 1

DirectoryInfo(url, validator, parent_index, parent_depth) ==
    [some |-> TRUE, url |-> url, validator |-> validator,
     parent_index |-> parent_index, parent_depth |-> parent_depth]

NoneMsg ==
    [some |-> FALSE, url |-> <<>>, validator |-> NoValidator,
     parent_index |-> 0, parent_depth |-> 0]

\* What the output channel keeps of a Finding: whether it is the end sentinel
\* (the rest of a Finding is only formatted by the output thread)
OutputMessage(finding) ==
    IF finding.url = MAIN_ENDING_URL THEN "data:MAIN ENDING" ELSE "finding"

-----------------------------------------------------------------------------
(* add_dir_to_scan_queue *)

UriGeneratorNew(url, prefix, extension, start_index, shard_count, parent_index, parent_depth, validator) ==
    [url |-> url, prefix |-> prefix, extension |-> extension,
     start_index |-> start_index, shard_count |-> shard_count,
     parent_index |-> parent_index, parent_depth |-> parent_depth,
     validator |-> validator]

\* The shard boost with the quotient rounded up
EffectiveSplitRoundedUp(first_run) ==
    LET num_hosts == Len(hostnames) IN
    IF /\ first_run
       /\ max_threads >= 3
       /\ (wordlist_split * num_hosts) < wrapping_sub(max_threads, 2)
    THEN (wrapping_sub(max_threads, 2) + num_hosts - 1) \div num_hosts
    ELSE wordlist_split

\* The shard boost applied to every directory, not only on the first run
EffectiveSplitEveryRun(first_run) ==
    LET num_hosts == Len(hostnames) IN
    IF /\ max_threads >= 3
       /\ (wordlist_split * num_hosts) < wrapping_sub(max_threads, 2)
    THEN wrapping_sub(max_threads, 2) \div num_hosts
    ELSE wordlist_split

EffectiveSplit(first_run) ==
    LET num_hosts == Len(hostnames) IN
    IF /\ first_run
       /\ max_threads >= 3
       /\ (wordlist_split * num_hosts) < wrapping_sub(max_threads, 2)
    THEN wrapping_sub(max_threads, 2) \div num_hosts
    ELSE wordlist_split

\* The shard loop handing the configured wordlist_split to the generator
\* in the place of the effective one
RECURSIVE ShardLoopConfiguredCount(_, _, _, _, _, _)
ShardLoopConfiguredCount(queue, dir_info, prefix, extension, start_index, split) ==
    IF start_index >= split THEN queue
    ELSE ShardLoopConfiguredCount(
            Append(queue,
                   UriGeneratorNew(dir_info.url, prefix, extension, start_index,
                                   wordlist_split, dir_info.parent_index,
                                   dir_info.parent_depth, dir_info.validator)),
            dir_info, prefix, extension, start_index + 1, split)

RECURSIVE ShardLoop(_, _, _, _, _, _)
ShardLoop(queue, dir_info, prefix, extension, start_index, split) ==
    IF start_index >= split THEN queue
    ELSE ShardLoop(
            Append(queue,
                   UriGeneratorNew(dir_info.url, prefix, extension, start_index,
                                   split, dir_info.parent_index,
                                   dir_info.parent_depth, dir_info.validator)),
            dir_info, prefix, extension, start_index + 1, split)

RECURSIVE ExtensionLoop(_, _, _, _, _)
ExtensionLoop(queue, dir_info, prefix, e, split) ==
    IF e > Len(extensions) THEN queue
    ELSE ExtensionLoop(ShardLoop(queue, dir_info, prefix, extensions[e], 0, split),
                       dir_info, prefix, e + 1, split)

RECURSIVE PrefixLoop(_, _, _, _)
PrefixLoop(queue, dir_info, p, split) ==
    IF p > Len(prefixes) THEN queue
    ELSE PrefixLoop(ExtensionLoop(queue, dir_info, prefixes[p], 1, split),
                    dir_info, p + 1, split)

\* add_dir_to_scan_queue with push_front in the place of push_back
AddDirPushFront(queue, dir_info, first_run) ==
    LET new == PrefixLoop(<<>>, dir_info, 1, EffectiveSplit(first_run))
    IN [i \in 1..Len(new) |-> new[Len(new) + 1 - i]] \o queue

add_dir_to_scan_queue(queue, dir_info, first_run) ==
    PrefixLoop(queue, dir_info, 1, EffectiveSplit(first_run))

\* The match on dir_info.validator without the test of scan_folder
ScanWhateverVerdict(queue, dir_info, first_run) ==
    add_dir_to_scan_queue(queue, dir_info, first_run)

\* The match on dir_info.validator shared by the bootstrap and the main loop
ScanOrSkip(queue, dir_info, first_run) ==
    IF dir_info.validator.some
    THEN IF dir_info.validator.scan_folder
         THEN add_dir_to_scan_queue(queue, dir_info, first_run)
         ELSE queue
    ELSE add_dir_to_scan_queue(queue, dir_info, first_run)

-----------------------------------------------------------------------------
(* Initial state: the configuration, and dirble_main after it has created  *)
(* the channels and spawned the validator thread                          *)

Init ==
    /\ max_threads \in 1..MaxThreads
    /\ wordlist_split \in 1..MaxSplit
    /\ hostnames \in {Hostnames(n) : n \in 1..MaxHosts}
    /\ prefixes = Prefixes(1)
    /\ extensions = Extensions(1)
    /\ disable_validator \in BOOLEAN
    /\ Len(hostnames) * EffectiveSplit(TRUE) <= MaxBootGenerators
    /\ pc = "boot_send"
    /\ boot_i = 0
    /\ scan_queue = <<>>
    /\ threads_in_use = 0
    /\ caught_ctrl_c = FALSE
    /\ to_validate = <<>>
    /\ to_scan = <<>>
    /\ output = <<>>
    /\ workers = <<>>
    /\ profiles = [h \in 0..(Len(hostnames) - 1) |-> "unset"]
    /\ validator_done = FALSE
    /\ output_done = FALSE
    /\ call = [op |-> "none"]

-----------------------------------------------------------------------------
(* dirble_main: the bootstrap *)

BootFinding(host_index) ==
    LET hostname == hostnames[host_index + 1]
        request == fabricate_request_response(hostname, TRUE, FALSE)
    IN [request EXCEPT !.parent_index = host_index,
                       !.parent_depth = path_segments_count(hostname)]

\* for (host_index, hostname) in hostnames: to_validate_tx.send(request)
BootSend ==
    /\ pc = "boot_send"
    /\ boot_i < Len(hostnames)
    /\ to_validate' = Append(to_validate, BootFinding(boot_i))
    /\ IF boot_i + 1 < Len(hostnames)
       THEN /\ boot_i' = boot_i + 1
            /\ pc' = pc
       ELSE /\ boot_i' = 0
            /\ pc' = "boot_recv"
    /\ UNCHANGED <<config, scan_queue, threads_in_use, caught_ctrl_c, to_scan,
                   output, workers, profiles, validator_done, output_done>>

\* The bootstrap receive loop that goes on after the first answer
BootRecvOneAnswer ==
    /\ pc = "boot_recv"
    /\ to_scan # <<>>
    /\ LET response == Head(to_scan) IN
         scan_queue' = IF response.some
                       THEN ScanOrSkip(scan_queue, response, TRUE)
                       ELSE scan_queue
    /\ to_scan' = Tail(to_scan)
    /\ boot_i' = 0
    /\ pc' = "start_main"
    /\ UNCHANGED <<config, threads_in_use, caught_ctrl_c, to_validate, output,
                   workers, profiles, validator_done, output_done>>

\* for _i in 0..hostnames.len(): to_scan_rx.recv() (blocking), first_run = true
BootRecv ==
    /\ pc = "boot_recv"
    /\ boot_i < Len(hostnames)
    /\ to_scan # <<>>
    /\ LET response == Head(to_scan) IN
         scan_queue' = IF response.some
                       THEN ScanOrSkip(scan_queue, response, TRUE)
                       ELSE scan_queue
    /\ to_scan' = Tail(to_scan)
    /\ IF boot_i + 1 < Len(hostnames)
       THEN /\ boot_i' = boot_i + 1
            /\ pc' = pc
       ELSE /\ boot_i' = 0
            /\ pc' = "start_main"
    /\ UNCHANGED <<config, threads_in_use, caught_ctrl_c, to_validate, output,
                   workers, profiles, validator_done, output_done>>

\* threads_in_use = 0; the output thread is spawned; the ctrlc handler is set
StartMain ==
    /\ pc = "start_main"
    /\ threads_in_use' = 0
    /\ pc' = "loop_head"
    /\ UNCHANGED <<config, boot_i, scan_queue, caught_ctrl_c, to_validate,
                   to_scan, output, workers, profiles, validator_done,
                   output_done>>

\* The handler registered by ctrlc::set_handler
Interrupt ==
    /\ pc \notin {"boot_send", "boot_recv", "start_main", "done"}
    /\ ~caught_ctrl_c
    /\ caught_ctrl_c' = TRUE
    /\ UNCHANGED <<config, pc, boot_i, scan_queue, threads_in_use, to_validate,
                   to_scan, output, workers, profiles, validator_done,
                   output_done>>

-----------------------------------------------------------------------------
(* dirble_main: the main loop *)

\* The loop head that tests the flag only when there is nothing left to do
LoopHeadFinishesWork ==
    /\ pc = "loop_head"
    /\ pc' = IF caught_ctrl_c /\ scan_queue = <<>> /\ threads_in_use = 0
             THEN "end_output"
             ELSE "try_recv"
    /\ UNCHANGED <<config, boot_i, scan_queue, threads_in_use, caught_ctrl_c,
                   to_validate, to_scan, output, workers, profiles,
                   validator_done, output_done>>

\* while !caught_ctrl_c.load(SeqCst)
LoopHead ==
    /\ pc = "loop_head"
    /\ pc' = IF caught_ctrl_c THEN "end_output" ELSE "try_recv"
    /\ UNCHANGED <<config, boot_i, scan_queue, threads_in_use, caught_ctrl_c,
                   to_validate, to_scan, output, workers, profiles,
                   validator_done, output_done>>

\* The receive step without the data:END arm: the message is taken and the
\* counter left as it is
TryRecvEndIgnored ==
    /\ pc = "try_recv"
    /\ IF to_scan = <<>>
       THEN UNCHANGED <<to_scan, threads_in_use, scan_queue>>
       ELSE LET dir_info == Head(to_scan) IN
            /\ to_scan' = Tail(to_scan)
            /\ IF ~dir_info.some \/ dir_info.url = END_URL
               THEN UNCHANGED <<threads_in_use, scan_queue>>
               ELSE /\ scan_queue' = ScanOrSkip(scan_queue, dir_info, FALSE)
                    /\ UNCHANGED threads_in_use
    /\ pc' = "dispatch"
    /\ UNCHANGED <<config, boot_i, caught_ctrl_c, to_validate, output, workers,
                   profiles, validator_done, output_done>>

\* The receive step taking a directory for a finished worker as well: the
\* counter is decremented for every message, and a directory is enqueued
TryRecvCountsEveryMessage ==
    /\ pc = "try_recv"
    /\ IF to_scan = <<>>
       THEN UNCHANGED <<to_scan, threads_in_use, scan_queue>>
       ELSE LET dir_info == Head(to_scan) IN
            /\ to_scan' = Tail(to_scan)
            /\ IF ~dir_info.some
               THEN UNCHANGED <<threads_in_use, scan_queue>>
               ELSE /\ threads_in_use' = wrapping_sub(threads_in_use, 1)
                    /\ scan_queue' = IF dir_info.url = END_URL THEN scan_queue
                                     ELSE ScanOrSkip(scan_queue, dir_info, FALSE)
    /\ pc' = "dispatch"
    /\ UNCHANGED <<config, boot_i, caught_ctrl_c, to_validate, output, workers,
                   profiles, validator_done, output_done>>

\* What receiving every message of the channel would leave
RECURSIVE DrainAll(_, _, _)
DrainAll(messages, queue, busy) ==
    IF messages = <<>> THEN [scan_queue |-> queue, threads_in_use |-> busy]
    ELSE LET dir_info == Head(messages) IN
         IF ~dir_info.some THEN DrainAll(Tail(messages), queue, busy)
         ELSE IF dir_info.url = END_URL
         THEN DrainAll(Tail(messages), queue, wrapping_sub(busy, 1))
         ELSE DrainAll(Tail(messages), ScanOrSkip(queue, dir_info, FALSE), busy)

\* The receive step with try_recv in a loop, until the channel is empty
TryRecvDrain ==
    /\ pc = "try_recv"
    /\ LET drained == DrainAll(to_scan, scan_queue, threads_in_use) IN
         /\ scan_queue' = drained.scan_queue
         /\ threads_in_use' = drained.threads_in_use
    /\ to_scan' = <<>>
    /\ pc' = "dispatch"
    /\ UNCHANGED <<config, boot_i, caught_ctrl_c, to_validate, output, workers,
                   profiles, validator_done, output_done>>

\* let to_scan = to_scan_rx.try_recv(); if let Ok(Some(dir_info)) = to_scan
TryRecv ==
    /\ pc = "try_recv"
    /\ IF to_scan = <<>>
       THEN UNCHANGED <<to_scan, threads_in_use, scan_queue>>
       ELSE LET dir_info == Head(to_scan) IN
            /\ to_scan' = Tail(to_scan)
            /\ IF ~dir_info.some
               THEN UNCHANGED <<threads_in_use, scan_queue>>
               ELSE IF dir_info.url = END_URL
               THEN /\ threads_in_use' = wrapping_sub(threads_in_use, 1)
                    /\ UNCHANGED scan_queue
               ELSE /\ scan_queue' = ScanOrSkip(scan_queue, dir_info, FALSE)
                    /\ UNCHANGED threads_in_use
    /\ pc' = "dispatch"
    /\ UNCHANGED <<config, boot_i, caught_ctrl_c, to_validate, output, workers,
                   profiles, validator_done, output_done>>

\* request_thread::thread_spawn(to_validate_tx_clone, output_tx_clone, list_gen, ..)
SpawnWorker(list_gen) == [gen |-> list_gen, idx |-> list_gen.start_index]

\* Dispatch that spawns the worker and forgets threads_in_use += 1
DispatchNoCount ==
    /\ pc = "dispatch"
    /\ IF threads_in_use < max_threads /\ scan_queue # <<>>
       THEN /\ workers' = Append(workers, SpawnWorker(Head(scan_queue)))
            /\ scan_queue' = Tail(scan_queue)
            /\ UNCHANGED threads_in_use
       ELSE UNCHANGED <<workers, scan_queue, threads_in_use>>
    /\ pc' = "term_check"
    /\ UNCHANGED <<config, boot_i, caught_ctrl_c, to_validate, to_scan, output,
                   profiles, validator_done, output_done>>

\* Dispatch with the cap tested by <= instead of <
DispatchOffByOne ==
    /\ pc = "dispatch"
    /\ IF threads_in_use <= max_threads /\ scan_queue # <<>>
       THEN /\ workers' = Append(workers, SpawnWorker(Head(scan_queue)))
            /\ scan_queue' = Tail(scan_queue)
            /\ threads_in_use' = wrapping_add(threads_in_use, 1)
       ELSE UNCHANGED <<workers, scan_queue, threads_in_use>>
    /\ pc' = "term_check"
    /\ UNCHANGED <<config, boot_i, caught_ctrl_c, to_validate, to_scan, output,
                   profiles, validator_done, output_done>>

\* Dispatch in a loop, while there is a free thread and a generator
DispatchWhile ==
    /\ pc = "dispatch"
    /\ LET free == IF threads_in_use < max_threads
                   THEN max_threads - threads_in_use ELSE 0
           n == IF Len(scan_queue) < free THEN Len(scan_queue) ELSE free
       IN /\ workers' = workers \o [i \in 1..n |-> SpawnWorker(scan_queue[i])]
          /\ scan_queue' = SubSeq(scan_queue, n + 1, Len(scan_queue))
          /\ threads_in_use' = threads_in_use + n
    /\ pc' = "term_check"
    /\ UNCHANGED <<config, boot_i, caught_ctrl_c, to_validate, to_scan, output,
                   profiles, validator_done, output_done>>

\* Dispatch of the generator enqueued last (pop_back)
DispatchFromBack ==
    /\ pc = "dispatch"
    /\ IF threads_in_use < max_threads /\ scan_queue # <<>>
       THEN /\ workers' = Append(workers, SpawnWorker(scan_queue[Len(scan_queue)]))
            /\ scan_queue' = SubSeq(scan_queue, 1, Len(scan_queue) - 1)
            /\ threads_in_use' = wrapping_add(threads_in_use, 1)
       ELSE UNCHANGED <<workers, scan_queue, threads_in_use>>
    /\ pc' = "term_check"
    /\ UNCHANGED <<config, boot_i, caught_ctrl_c, to_validate, to_scan, output,
                   profiles, validator_done, output_done>>

\* if threads_in_use < max_threads && !scan_queue.is_empty()
Dispatch ==
    /\ pc = "dispatch"
    /\ IF threads_in_use < max_threads /\ scan_queue # <<>>
       THEN /\ workers' = Append(workers, SpawnWorker(Head(scan_queue)))
            /\ scan_queue' = Tail(scan_queue)
            /\ threads_in_use' = wrapping_add(threads_in_use, 1)
       ELSE UNCHANGED <<workers, scan_queue, threads_in_use>>
    /\ pc' = "term_check"
    /\ UNCHANGED <<config, boot_i, caught_ctrl_c, to_validate, to_scan, output,
                   profiles, validator_done, output_done>>

\* The termination check looking at the scan queue only, not at the counter
TermCheckQueueOnly ==
    /\ pc = "term_check"
    /\ pc' = IF scan_queue = <<>>
             THEN "end_output"
             ELSE "loop_head"
    /\ UNCHANGED <<config, boot_i, scan_queue, threads_in_use, caught_ctrl_c,
                   to_validate, to_scan, output, workers, profiles,
                   validator_done, output_done>>

\* The termination check with || in the place of &&
TermCheckEither ==
    /\ pc = "term_check"
    /\ pc' = IF threads_in_use = 0 \/ scan_queue = <<>>
             THEN "end_output"
             ELSE "loop_head"
    /\ UNCHANGED <<config, boot_i, scan_queue, threads_in_use, caught_ctrl_c,
                   to_validate, to_scan, output, workers, profiles,
                   validator_done, output_done>>

\* if threads_in_use == 0 && scan_queue.is_empty() { break; }  then sleep(1ms)
TermCheck ==
    /\ pc = "term_check"
    /\ pc' = IF threads_in_use = 0 /\ scan_queue = <<>>
             THEN "end_output"
             ELSE "loop_head"
    /\ UNCHANGED <<config, boot_i, scan_queue, threads_in_use, caught_ctrl_c,
                   to_validate, to_scan, output, workers, profiles,
                   validator_done, output_done>>

-----------------------------------------------------------------------------
(* dirble_main: after the loop *)

\* dirble_main without the end sentinel for the output thread
SendEndOutputOmitted ==
    /\ pc = "end_output"
    /\ pc' = "end_validator"
    /\ UNCHANGED <<config, boot_i, scan_queue, threads_in_use, caught_ctrl_c,
                   to_validate, to_scan, output, workers, profiles,
                   validator_done, output_done>>

\* output_tx.send(generate_end())
SendEndOutput ==
    /\ pc = "end_output"
    /\ output' = Append(output, OutputMessage(generate_end))
    /\ pc' = "end_validator"
    /\ UNCHANGED <<config, boot_i, scan_queue, threads_in_use, caught_ctrl_c,
                   to_validate, to_scan, workers, profiles, validator_done,
                   output_done>>

\* dirble_main without the end sentinel for the validator
SendEndValidatorOmitted ==
    /\ pc = "end_validator"
    /\ pc' = "join_output"
    /\ UNCHANGED <<config, boot_i, scan_queue, threads_in_use, caught_ctrl_c,
                   to_validate, to_scan, output, workers, profiles,
                   validator_done, output_done>>

\* to_validate_tx.send(generate_end())
SendEndValidator ==
    /\ pc = "end_validator"
    /\ to_validate' = Append(to_validate, generate_end)
    /\ pc' = "join_output"
    /\ UNCHANGED <<config, boot_i, scan_queue, threads_in_use, caught_ctrl_c,
                   to_scan, output, workers, profiles, validator_done,
                   output_done>>

\* output_thread.join()
JoinOutput ==
    /\ pc = "join_output"
    /\ output_done
    /\ pc' = "join_validator"
    /\ UNCHANGED <<config, boot_i, scan_queue, threads_in_use, caught_ctrl_c,
                   to_validate, to_scan, output, workers, profiles,
                   validator_done, output_done>>

\* validator_thread.join(); dirble_main returns
JoinValidator ==
    /\ pc = "join_validator"
    /\ validator_done
    /\ pc' = "done"
    /\ UNCHANGED <<config, boot_i, scan_queue, threads_in_use, caught_ctrl_c,
                   to_validate, to_scan, output, workers, profiles,
                   validator_done, output_done>>

-----------------------------------------------------------------------------
(* Request worker (request_thread::thread_spawn): exhausts its generator,  *)
(* sends every Finding to the output thread and every directory to the     *)
(* validator, then sends data:END to the validator.                        *)

RemoveAt(seq, i) == SubSeq(seq, 1, i - 1) \o SubSeq(seq, i + 1, Len(seq))

\* base_dir_url + prefix + word + extension, by string concatenation
CandidateUrl(gen, word) ==
    SubSeq(gen.url, 1, Len(gen.url) - 1) \o <<gen.prefix \o word \o gen.extension>>

\* Depth of a directory URL below the host it belongs to
DirDepth(gen) ==
    path_segments_count(gen.url) - path_segments_count(hostnames[gen.parent_index + 1])

\* The Err(e) branch answering with a Finding that looks like a directory
TransportErrorAsDirectory(url) == RequestResponse(url, 0, TRUE, FALSE, <<>>, FALSE)

\* make_request, Err(e) branch
TransportError(url) == RequestResponse(url, 0, FALSE, FALSE, <<>>, FALSE)

\* make_request, a 200 answer
FileFound(url) == RequestResponse(url, 200, FALSE, FALSE, <<>>, FALSE)

\* make_request, a 301 whose Location is url + "/"
DirectoryFound(url) == RequestResponse(url, 301, TRUE, FALSE, url \o <<"">>, FALSE)

WorkerFinding(gen, outcome, url) ==
    LET f == CASE outcome = "error" -> TransportError(url)
               [] outcome = "file" -> FileFound(url)
               [] outcome = "dir" -> DirectoryFound(url)
    IN [f EXCEPT !.parent_index = gen.parent_index,
                 !.parent_depth = gen.parent_depth]

\* Whether the worker forwards a Finding to the validator
ForwardToValidator(finding) == finding.is_directory

\* The target site: under the first host the first word names a directory, down
\* to MaxDirDepth levels; every other URL is a file or fails to answer
SiteIsDirectory(gen, url) ==
    /\ DirDepth(gen) < MaxDirDepth
    /\ gen.parent_index = 0
    /\ url[Len(url)] = wordlist[1]

WorkerOutcomes(gen, url) ==
    IF SiteIsDirectory(gen, url) THEN {"dir", "error"} ELSE {"file", "error"}

\* One URL of the generator: request it, emit the Finding
WorkerRequest(w) ==
    /\ pc # "done"
    /\ w \in 1..Len(workers)
    /\ workers[w].idx < WordlistLen
    /\ \E outcome \in WorkerOutcomes(workers[w].gen,
                                      CandidateUrl(workers[w].gen,
                                                   wordlist[workers[w].idx + 1])) :
         LET gen == workers[w].gen
             url == CandidateUrl(gen, wordlist[workers[w].idx + 1])
             finding == WorkerFinding(gen, outcome, url)
             closed == output_done \/ (ForwardToValidator(finding) /\ validator_done)
         IN /\ output' = IF output_done THEN output
                          ELSE Append(output, OutputMessage(finding))
            /\ to_validate' = IF ForwardToValidator(finding) /\ ~closed
                              THEN Append(to_validate, finding)
                              ELSE to_validate
            /\ workers' = IF closed
                          THEN RemoveAt(workers, w)
                          ELSE [workers EXCEPT ![w].idx = @ + gen.shard_count]
    /\ UNCHANGED <<config, pc, boot_i, scan_queue, threads_in_use, caught_ctrl_c,
                   to_scan, profiles, validator_done, output_done>>

WorkerEndFinding == RequestResponse(END_URL, 0, FALSE, FALSE, <<>>, FALSE)

\* The generator is exhausted: send data:END and return
WorkerEnd(w) ==
    /\ pc # "done"
    /\ w \in 1..Len(workers)
    /\ workers[w].idx >= WordlistLen
    /\ to_validate' = IF validator_done THEN to_validate
                      ELSE Append(to_validate, WorkerEndFinding)
    /\ workers' = RemoveAt(workers, w)
    /\ UNCHANGED <<config, pc, boot_i, scan_queue, threads_in_use, caught_ctrl_c,
                   to_scan, output, profiles, validator_done, output_done>>

-----------------------------------------------------------------------------
(* Validator thread (validator_thread::validator_thread) *)

\* Results of calibrating a host: a usable profile, an unreliable one
\* (scan_folder is false), or no answer from the host
ProfileOutcomes == {"scan", "noscan", "failed"}

\* The directory URL of a Finding, with its trailing '/'
DirectoryUrl(url) == IF url[Len(url)] = "" THEN url ELSE url \o <<"">>

ValidatorAnswer(finding, profile) ==
    CASE disable_validator ->
            DirectoryInfo(DirectoryUrl(finding.url), NoValidator,
                          finding.parent_index, finding.parent_depth)
      [] profile = "failed" -> NoneMsg
      [] profile = "scan" ->
            DirectoryInfo(DirectoryUrl(finding.url), SomeValidator(TRUE),
                          finding.parent_index, finding.parent_depth)
      [] profile = "noscan" ->
            DirectoryInfo(DirectoryUrl(finding.url), SomeValidator(FALSE),
                          finding.parent_index, finding.parent_depth)

EndDirectoryInfo == DirectoryInfo(END_URL, NoValidator, 0, 0)

ValidatorRecv ==
    /\ pc # "done"
    /\ ~validator_done
    /\ to_validate # <<>>
    /\ to_validate' = Tail(to_validate)
    /\ LET finding == Head(to_validate) IN
         IF finding.url = MAIN_ENDING_URL
         THEN /\ validator_done' = TRUE
              /\ UNCHANGED <<to_scan, profiles>>
         ELSE IF finding.url = END_URL
         THEN /\ to_scan' = Append(to_scan, EndDirectoryInfo)
              /\ UNCHANGED <<validator_done, profiles>>
         ELSE \E built \in ProfileOutcomes :
                LET profile == IF disable_validator
                               THEN "unset"
                               ELSE IF profiles[finding.parent_index] = "unset"
                               THEN built
                               ELSE profiles[finding.parent_index]
                IN /\ profiles' = [profiles EXCEPT ![finding.parent_index] = profile]
                   /\ to_scan' = Append(to_scan, ValidatorAnswer(finding, profile))
                   /\ UNCHANGED validator_done
    /\ UNCHANGED <<config, pc, boot_i, scan_queue, threads_in_use, caught_ctrl_c,
                   output, workers, output_done>>

-----------------------------------------------------------------------------
(* Output thread (output_thread::output_thread) *)

OutputRecv ==
    /\ pc \notin {"boot_send", "boot_recv", "start_main", "done"}
    /\ ~output_done
    /\ output # <<>>
    /\ output' = Tail(output)
    /\ output_done' = (Head(output) = "data:MAIN ENDING")
    /\ UNCHANGED <<config, pc, boot_i, scan_queue, threads_in_use, caught_ctrl_c,
                   to_validate, to_scan, workers, profiles, validator_done>>

-----------------------------------------------------------------------------

Scheduler ==
    \/ BootSend
    \/ BootRecv
    \/ StartMain
    \/ LoopHead
    \/ TryRecv
    \/ Dispatch
    \/ TermCheck
    \/ SendEndOutput
    \/ SendEndValidator
    \/ JoinOutput
    \/ JoinValidator

Worker == \E w \in 1..Len(workers) : WorkerRequest(w) \/ WorkerEnd(w)

Next ==
    \/ Scheduler
    \/ Interrupt
    \/ Worker
    \/ ValidatorRecv
    \/ OutputRecv

Spec == Init /\ [][Next]_vars

\* The scheduler, the validator and the output thread are OS threads that keep
\* running; nothing is assumed of the workers (a request may hang until its
\* timeout) nor of the interrupt.
FairSpec ==
    /\ Spec
    /\ WF_vars(Scheduler)
    /\ WF_vars(ValidatorRecv)
    /\ WF_vars(OutputRecv)

\* A run in which no interrupt is raised
NextUninterrupted ==
    \/ Scheduler
    \/ Worker
    \/ ValidatorRecv
    \/ OutputRecv

\* Every thread keeps running: the scheduler, the validator, the output thread,
\* and the workers too, each request answered or timed out in the end, so
\* that every spawned worker comes to send its data:END
SpecUninterrupted ==
    /\ Init
    /\ [][NextUninterrupted]_vars
    /\ WF_vars(Scheduler)
    /\ WF_vars(ValidatorRecv)
    /\ WF_vars(OutputRecv)
    /\ WF_vars(Worker)

-----------------------------------------------------------------------------
(* The scheduler facing a validator that decides scan_folder for each       *)
(* directory: lib.rs tests the verdict of every DirectoryInfo it receives,  *)
(* in the main loop as in the bootstrap                                     *)

ValidatorRecvAnyVerdict ==
    /\ pc # "done"
    /\ ~validator_done
    /\ to_validate # <<>>
    /\ to_validate' = Tail(to_validate)
    /\ LET finding == Head(to_validate) IN
         IF finding.url = MAIN_ENDING_URL
         THEN /\ validator_done' = TRUE
              /\ UNCHANGED <<to_scan, profiles>>
         ELSE IF finding.url = END_URL
         THEN /\ to_scan' = Append(to_scan, EndDirectoryInfo)
              /\ UNCHANGED <<validator_done, profiles>>
         ELSE \E built \in ProfileOutcomes :
                LET profile == IF disable_validator THEN "unset" ELSE built
                IN /\ profiles' = [profiles EXCEPT ![finding.parent_index] = profile]
                   /\ to_scan' = Append(to_scan, ValidatorAnswer(finding, profile))
                   /\ UNCHANGED validator_done
    /\ UNCHANGED <<config, pc, boot_i, scan_queue, threads_in_use, caught_ctrl_c,
                   output, workers, output_done>>

NextAnyVerdict ==
    \/ Scheduler
    \/ Interrupt
    \/ Worker
    \/ ValidatorRecvAnyVerdict
    \/ OutputRecv

SpecAnyVerdict == Init /\ [][NextAnyVerdict]_vars

-----------------------------------------------------------------------------
(* dirble_main: the wordlist is normalised before anything is scanned.  A  *)
(* line is a sequence of characters.                                       *)

Chars == {"/", "a", "b"}

\* The byte of a character, which String's Ord compares
CharCode(c) == CASE c = "/" -> 47 [] c = "a" -> 97 [] c = "b" -> 98

Lines == UNION {[1..n -> Chars] : n \in 0..MaxWordLen}

LineLists == UNION {[1..n -> Lines] : n \in 0..MaxLines}

\* if word.starts_with('/') { word.remove(0); }
\* if word.ends_with('/') { word.pop(); }
StripSlashes(word) ==
    LET w1 == IF Len(word) > 0 /\ word[1] = "/" THEN Tail(word) ELSE word
    IN IF Len(w1) > 0 /\ w1[Len(w1)] = "/"
       THEN SubSeq(w1, 1, Len(w1) - 1)
       ELSE w1

\* String's order: byte by byte, a proper prefix first
RECURSIVE LexLess(_, _)
LexLess(a, b) ==
    IF b = <<>> THEN FALSE
    ELSE IF a = <<>> THEN TRUE
    ELSE IF a[1] = b[1] THEN LexLess(Tail(a), Tail(b))
    ELSE CharCode(a[1]) < CharCode(b[1])

RECURSIVE InsertSorted(_, _)
InsertSorted(list, word) ==
    IF list = <<>> THEN <<word>>
    ELSE IF LexLess(word, Head(list)) THEN <<word>> \o list
    ELSE <<Head(list)>> \o InsertSorted(Tail(list), word)

\* wordlist.sort()
RECURSIVE sort(_)
sort(list) ==
    IF list = <<>> THEN <<>>
    ELSE InsertSorted(sort(SubSeq(list, 1, Len(list) - 1)), list[Len(list)])

\* wordlist.dedup(): removes consecutive repeated elements
RECURSIVE dedup(_)
dedup(list) ==
    IF Len(list) <= 1 THEN list
    ELSE LET rest == dedup(SubSeq(list, 1, Len(list) - 1))
         IN IF rest[Len(rest)] = list[Len(list)]
            THEN rest
            ELSE Append(rest, list[Len(list)])

NormaliseLines(lines) ==
    dedup(sort([i \in 1..Len(lines) |-> StripSlashes(lines[i])]))

InitWordlist ==
    /\ max_threads = 1
    /\ wordlist_split = 1
    /\ hostnames = Hostnames(1)
    /\ prefixes = Prefixes(1)
    /\ extensions = Extensions(1)
    /\ disable_validator = FALSE
    /\ pc = "wordlist"
    /\ boot_i = 0
    /\ scan_queue = <<>>
    /\ threads_in_use = 0
    /\ caught_ctrl_c = FALSE
    /\ to_validate = <<>>
    /\ to_scan = <<>>
    /\ output = <<>>
    /\ workers = <<>>
    /\ profiles = [h \in 0..0 |-> "unset"]
    /\ validator_done = FALSE
    /\ output_done = FALSE
    /\ \E lines \in LineLists : call = [op |-> "lines_from_file", lines |-> lines]

NormaliseWordlist ==
    /\ pc = "wordlist"
    /\ call.op = "lines_from_file"
    /\ call' = [op |-> "wordlist", lines |-> call.lines,
                wordlist |-> NormaliseLines(call.lines)]
    /\ UNCHANGED <<max_threads, wordlist_split, hostnames, prefixes, extensions,
                   disable_validator, pc, boot_i, scan_queue, threads_in_use,
                   caught_ctrl_c, to_validate, to_scan, output, workers,
                   profiles, validator_done, output_done>>

NextWordlist == NormaliseWordlist

SpecWordlist == InitWordlist /\ [][NextWordlist]_vars

-----------------------------------------------------------------------------
(* request.rs: make_request.  Here a URL is the sequence of the characters  *)
(* of Url::as_str(), and the answer of the server is an input.             *)

SchemeAndHost == <<"h", "t", "t", "p", ":", "/", "/", "h", "/">>

UrlChars == {"a", "/", "%", "6", "1"}

HexDigits == {"6", "1"}

\* The byte two hexadecimal digits stand for
HexByte(hi, lo) ==
    CASE hi = "6" /\ lo = "1" -> "a"
      [] hi = "6" /\ lo = "6" -> "f"
      [] hi = "1" /\ lo = "6" -> "SYN"
      [] hi = "1" /\ lo = "1" -> "DC1"

\* percent_encoding::percent_decode: %XY becomes one byte, anything else stays
RECURSIVE percent_decode(_)
percent_decode(str) ==
    IF str = <<>> THEN <<>>
    ELSE IF /\ str[1] = "%"
            /\ Len(str) >= 3
            /\ str[2] \in HexDigits
            /\ str[3] \in HexDigits
    THEN <<HexByte(str[2], str[3])>> \o percent_decode(SubSeq(str, 4, Len(str)))
    ELSE <<str[1]>> \o percent_decode(Tail(str))

\* The URLs requested and the Location headers answered
RequestUrls ==
    {SchemeAndHost \o path : path \in UNION {[1..n -> UrlChars] : n \in 0..MaxPathLen}}

RedirectDests ==
    {SchemeAndHost \o path : path \in UNION {[1..n -> UrlChars] : n \in 0..MaxDestLen}}

\* What perform(easy) and the getters of the handle give: an error of the
\* transport, or a code, a Location (possibly none) and a body length
PerformResults ==
    {[ok |-> FALSE]}
    \cup [ok : {TRUE}, code : {200, 301, 302, 404},
          redirect_url : [some : {TRUE}, dest : RedirectDests],
          contents_len : {0, 7}]
    \cup [ok : {TRUE}, code : {200, 301},
          redirect_url : {[some |-> FALSE]},
          contents_len : {7}]

Panic == [panicked |-> TRUE]

Returned(response) == [panicked |-> FALSE, response |-> response]

\* make_request that compares the URLs as they are, without decoding them
MakeRequestNoDecode(url, performed) ==
    IF ~performed.ok THEN Returned(TransportError(url))
    ELSE LET req_response ==
                 [RequestResponse(url, performed.code, FALSE, FALSE, <<>>, FALSE)
                    EXCEPT !.content_len = performed.contents_len]
         IN IF performed.code = 301 \/ performed.code = 302
            THEN IF ~performed.redirect_url.some THEN Panic
                 ELSE LET redir_dest == performed.redirect_url.dest
                          dir_url == url \o <<"/">>
                      IN Returned([req_response EXCEPT
                                     !.is_directory = (dir_url = redir_dest),
                                     !.redirect_url = percent_decode(redir_dest)])
            ELSE Returned(req_response)

make_request(url, performed) ==
    IF ~performed.ok THEN Returned(TransportError(url))
    ELSE LET req_response ==
                 [RequestResponse(url, performed.code, FALSE, FALSE, <<>>, FALSE)
                    EXCEPT !.content_len = performed.contents_len]
         IN IF performed.code = 301 \/ performed.code = 302
            THEN IF ~performed.redirect_url.some THEN Panic
                 ELSE LET redir_dest == percent_decode(performed.redirect_url.dest)
                          dir_url == percent_decode(url \o <<"/">>)
                      IN Returned([req_response EXCEPT
                                     !.is_directory = (dir_url = redir_dest),
                                     !.redirect_url = redir_dest])
            ELSE Returned(req_response)

InitMakeRequest ==
    /\ max_threads = 1
    /\ wordlist_split = 1
    /\ hostnames = Hostnames(1)
    /\ prefixes = Prefixes(1)
    /\ extensions = Extensions(1)
    /\ disable_validator = FALSE
    /\ pc = "make_request"
    /\ boot_i = 0
    /\ scan_queue = <<>>
    /\ threads_in_use = 0
    /\ caught_ctrl_c = FALSE
    /\ to_validate = <<>>
    /\ to_scan = <<>>
    /\ output = <<>>
    /\ workers = <<>>
    /\ profiles = [h \in 0..0 |-> "unset"]
    /\ validator_done = FALSE
    /\ output_done = FALSE
    /\ \E url \in RequestUrls, performed \in PerformResults :
         call = [op |-> "request", url |-> url, performed |-> performed]

MakeRequest ==
    /\ pc = "make_request"
    /\ call.op = "request"
    /\ call' = [op |-> "make_request", url |-> call.url,
                performed |-> call.performed,
                result |-> make_request(call.url, call.performed)]
    /\ UNCHANGED <<max_threads, wordlist_split, hostnames, prefixes, extensions,
                   disable_validator, pc, boot_i, scan_queue, threads_in_use,
                   caught_ctrl_c, to_validate, to_scan, output, workers,
                   profiles, validator_done, output_done>>

NextMakeRequest == MakeRequest

SpecMakeRequest == InitMakeRequest /\ [][NextMakeRequest]_vars

-----------------------------------------------------------------------------
(* request.rs: listable_check.  The site is an input: easy[l + 1] is what   *)
(* the directories l levels below the host answer to a GET.                *)

MarkerParentDirectory == <<"p", "a", "r", "e", "n", "t", " ", "d", "i", "r", "e", "c", "t", "o", "r", "y">>

MarkerUpTo == <<"u", "p", " ", "t", "o", " ">>

MarkerDirectoryListingFor == <<"d", "i", "r", "e", "c", "t", "o", "r", "y", " ", "l", "i", "s", "t", "i", "n", "g", " ", "f", "o", "r">>

\* Bodies of index pages, as the server writes them
Bodies ==
    {<<"I", "n", "d", "e", "x", " ", "o", "f", " ", "/">>,
     <<"P", "a", "r", "e", "n", "t", " ", "D", "i", "r", "e", "c", "t", "o", "r", "y">>,
     <<"U", "p", " ", "T", "o", " ", "/">>,
     <<"u", "p", " ", "t", "o">>,
     <<"D", "i", "r", "e", "c", "t", "o", "r", "y", " ", "L", "i", "s", "t", "i", "n", "g", " ", "F", "o", "r", " ", "/">>}

LowerChar(c) ==
    CASE c = "P" -> "p" [] c = "D" -> "d" [] c = "U" -> "u" [] c = "T" -> "t"
      [] c = "L" -> "l" [] c = "F" -> "f" [] c = "I" -> "i" [] OTHER -> c

\* The body searched as the server wrote it
BodyAsWritten(str) == str

\* str::to_lowercase
to_lowercase(str) == [i \in 1..Len(str) |-> LowerChar(str[i])]

\* str::contains
contains(str, pat) ==
    \E i \in 1..(Len(str) - Len(pat) + 1) : SubSeq(str, i, i + Len(pat) - 1) = pat

\* str::ends_with('/')
ends_with_slash(str) == str # <<>> /\ str[Len(str)] = "/"

\* str::matches('/').count()
slash_count(str) == Cardinality({i \in 1..Len(str) : str[i] = "/"})

\* The links of an index page: a file and a directory below it
ScrapedNames == {<<>>, <<<<"a">>, <<"b", "/">>>>}

\* What a directory answers: the result of the request, the body, the links
PageKinds ==
    [performed : {[ok |-> FALSE],
                  [ok |-> TRUE, code |-> 404, contents_len |-> 7,
                   redirect_url |-> [some |-> FALSE]],
                  [ok |-> TRUE, code |-> 301, contents_len |-> 7,
                   redirect_url |-> [some |-> TRUE, dest |-> SchemeAndHost]]},
     body : {<<"P", "a", "r", "e", "n", "t", " ", "D", "i", "r", "e", "c", "t", "o", "r", "y">>},
     names : {<<<<"a">>, <<"b", "/">>>>}]
    \cup
    [performed : {[ok |-> TRUE, code |-> 200, contents_len |-> 7,
                   redirect_url |-> [some |-> FALSE]]},
     body : Bodies,
     names : ScrapedNames]

NotFoundPage ==
    [performed |-> [ok |-> TRUE, code |-> 404, contents_len |-> 0,
                    redirect_url |-> [some |-> FALSE]],
     body |-> <<>>, names |-> <<>>]

Sites == [1..MaxLevels -> PageKinds]

\* The page of a directory URL: by its level below http://h/
Page(easy, dir_url) ==
    LET level == slash_count(dir_url) - 3
    IN IF level + 1 \in 1..Len(easy) THEN easy[level + 1] ELSE NotFoundPage

\* content_parse::scrape_urls(content, dir_url): the links, made absolute
scrape_urls(page, dir_url) ==
    [i \in 1..Len(page.names) |-> dir_url \o page.names[i]]

NoMaxDepth == [some |-> FALSE]

SomeMaxDepth(max_depth) == [some |-> TRUE, max_depth |-> max_depth]

RECURSIVE listable_check(_, _, _, _, _)

\* The loop over the scraped URLs that descends whatever the depth
RECURSIVE ScrapedLoopNoLimit(_, _, _, _, _, _)
ScrapedLoopNoLimit(easy, scraped_urls, i, max_recursion_depth, parent_depth, scrape_listable) ==
    IF i > Len(scraped_urls) THEN <<>>
    ELSE LET scraped_url == scraped_urls[i]
             found ==
                 IF ~ends_with_slash(scraped_url)
                 THEN <<fabricate_request_response(scraped_url, FALSE, FALSE)>>
                 ELSE listable_check(easy, scraped_url, max_recursion_depth,
                                     parent_depth, scrape_listable)
         IN found \o ScrapedLoopNoLimit(easy, scraped_urls, i + 1,
                                        max_recursion_depth, parent_depth,
                                        scrape_listable)

\* for scraped_url in scraped_urls
RECURSIVE ScrapedLoop(_, _, _, _, _, _)
ScrapedLoop(easy, scraped_urls, i, max_recursion_depth, parent_depth, scrape_listable) ==
    IF i > Len(scraped_urls) THEN <<>>
    ELSE LET scraped_url == scraped_urls[i]
             depth == slash_count(scraped_url) - 1 - parent_depth
             found ==
                 IF ~ends_with_slash(scraped_url)
                 THEN <<fabricate_request_response(scraped_url, FALSE, FALSE)>>
                 ELSE IF max_recursion_depth.some
                         /\ depth > max_recursion_depth.max_depth
                 THEN <<fabricate_request_response(scraped_url, TRUE, FALSE)>>
                 ELSE listable_check(easy, scraped_url, max_recursion_depth,
                                     parent_depth, scrape_listable)
         IN found \o ScrapedLoop(easy, scraped_urls, i + 1, max_recursion_depth,
                                 parent_depth, scrape_listable)

listable_check(easy, original_url, max_recursion_depth, parent_depth, scrape_listable) ==
    LET dir_url == IF ends_with_slash(original_url)
                   THEN original_url
                   ELSE original_url \o <<"/">>
        page == Page(easy, dir_url)
        response == make_request(dir_url, page.performed).response
        content == to_lowercase(page.body)
        listable == \/ contains(content, MarkerParentDirectory)
                    \/ contains(content, MarkerUpTo)
                    \/ contains(content, MarkerDirectoryListingFor)
    IN IF response.code = 200
       THEN IF listable
            THEN LET first == [response EXCEPT !.is_listable = TRUE,
                                               !.is_directory = TRUE]
                 IN IF ~scrape_listable
                    THEN <<first>>
                    ELSE <<first>> \o ScrapedLoop(easy, scrape_urls(page, dir_url),
                                                  1, max_recursion_depth,
                                                  parent_depth, scrape_listable)
            ELSE <<[response EXCEPT !.is_listable = FALSE, !.is_directory = TRUE]>>
       ELSE <<[response EXCEPT !.is_directory = TRUE, !.is_listable = FALSE]>>

\* The directories a worker hands to listable_check: the host, and a
\* directory found below it by a redirect (no trailing '/')
OriginalUrls == {SchemeAndHost, SchemeAndHost \o <<"b">>}

MaxDepths == {NoMaxDepth} \cup {SomeMaxDepth(n) : n \in 0..MaxRecursion}

InitListable ==
    /\ max_threads = 1
    /\ wordlist_split = 1
    /\ hostnames = Hostnames(1)
    /\ prefixes = Prefixes(1)
    /\ extensions = Extensions(1)
    /\ disable_validator = FALSE
    /\ pc = "listable_check"
    /\ boot_i = 0
    /\ scan_queue = <<>>
    /\ threads_in_use = 0
    /\ caught_ctrl_c = FALSE
    /\ to_validate = <<>>
    /\ to_scan = <<>>
    /\ output = <<>>
    /\ workers = <<>>
    /\ profiles = [h \in 0..0 |-> "unset"]
    /\ validator_done = FALSE
    /\ output_done = FALSE
    /\ \E easy \in Sites, original_url \in OriginalUrls,
          max_recursion_depth \in MaxDepths,
          parent_depth \in 0..MaxParentDepth, scrape_listable \in BOOLEAN :
         call = [op |-> "directory", easy |-> easy, original_url |-> original_url,
                 max_recursion_depth |-> max_recursion_depth,
                 parent_depth |-> parent_depth,
                 scrape_listable |-> scrape_listable]

ListableCheck ==
    /\ pc = "listable_check"
    /\ call.op = "directory"
    /\ call' = [call EXCEPT !.op = "listable_check"]
                  @@ [output_list |->
                        listable_check(call.easy, call.original_url,
                                       call.max_recursion_depth,
                                       call.parent_depth, call.scrape_listable)]
    /\ UNCHANGED <<max_threads, wordlist_split, hostnames, prefixes, extensions,
                   disable_validator, pc, boot_i, scan_queue, threads_in_use,
                   caught_ctrl_c, to_validate, to_scan, output, workers,
                   profiles, validator_done, output_done>>

NextListable == ListableCheck

SpecListable == InitListable /\ [][NextListable]_vars

-----------------------------------------------------------------------------
(* RequestResponse::get_depth and output_format.rs.  A string is the        *)
(* sequence of its characters.                                             *)

\* get_depth that takes the depth from the host, not from the parent
GetDepthFromHost(response) ==
    LET depth == slash_count(response.url) IN
    (IF ends_with_slash(response.url) THEN depth - 1 ELSE depth) - 1

\* get_depth that counts the trailing '/' as a level
GetDepthCountsTrailingSlash(response) ==
    slash_count(response.url) - response.parent_depth - 1

get_depth(response) ==
    LET depth == slash_count(response.url) IN
    (IF ends_with_slash(response.url) THEN depth - 1 ELSE depth)
        - response.parent_depth - 1

\* output_indentation that starts a new line for every Finding
OutputIndentationNewlineForAll(response, print_newlines, indentation) ==
    LET newline == IF print_newlines THEN <<"\n">> ELSE <<>>
        depth == get_depth(response)
    IN IF ~indentation THEN newline
       ELSE IF depth <= 0 THEN newline
       ELSE newline \o [i \in 1..(2 * depth) |-> " "]

output_indentation(response, print_newlines, indentation) ==
    LET newline == IF response.is_directory /\ print_newlines
                   THEN <<"\n">>
                   ELSE <<>>
        depth == get_depth(response)
    IN IF ~indentation THEN newline
       ELSE IF depth <= 0 THEN newline
       ELSE newline \o [i \in 1..(2 * depth) |-> " "]

\* The URLs of the Findings shown: paths of 'a' and '/', and two deeper ones
ShownUrls ==
    {SchemeAndHost \o path :
        path \in UNION {[1..n -> {"a", "/"}] : n \in 0..MaxShownPathLen}}
    \cup {SchemeAndHost \o <<"a", "/", "b", "/", "c">>,
          SchemeAndHost \o <<"a", "/", "b", "/", "c", "/">>}

ShownResponses ==
    {[RequestResponse(url, 200, is_directory, FALSE, <<>>, FALSE)
        EXCEPT !.parent_depth = parent_depth] :
        url \in ShownUrls, is_directory \in BOOLEAN,
        parent_depth \in 0..MaxShownParentDepth}

InitOutputFormat ==
    /\ max_threads = 1
    /\ wordlist_split = 1
    /\ hostnames = Hostnames(1)
    /\ prefixes = Prefixes(1)
    /\ extensions = Extensions(1)
    /\ disable_validator = FALSE
    /\ pc = "output_format"
    /\ boot_i = 0
    /\ scan_queue = <<>>
    /\ threads_in_use = 0
    /\ caught_ctrl_c = FALSE
    /\ to_validate = <<>>
    /\ to_scan = <<>>
    /\ output = <<>>
    /\ workers = <<>>
    /\ profiles = [h \in 0..0 |-> "unset"]
    /\ validator_done = FALSE
    /\ output_done = FALSE
    /\ \E response \in ShownResponses, print_newlines \in BOOLEAN,
          indentation \in BOOLEAN :
         call = [op |-> "response", response |-> response,
                 print_newlines |-> print_newlines,
                 indentation |-> indentation]

OutputIndentation ==
    /\ pc = "output_format"
    /\ call.op = "response"
    /\ call' = [call EXCEPT !.op = "output_indentation"]
                  @@ [depth |-> get_depth(call.response),
                      indent |-> output_indentation(call.response,
                                                    call.print_newlines,
                                                    call.indentation)]
    /\ UNCHANGED <<max_threads, wordlist_split, hostnames, prefixes, extensions,
                   disable_validator, pc, boot_i, scan_queue, threads_in_use,
                   caught_ctrl_c, to_validate, to_scan, output, workers,
                   profiles, validator_done, output_done>>

NextOutputFormat == OutputIndentation

SpecOutputFormat == InitOutputFormat /\ [][NextOutputFormat]_vars

-----------------------------------------------------------------------------
(* output_format.rs: output_letter and output_suffix.  An escape sequence   *)
(* of the terminal is one element of a string.                             *)

EscBold == "ESC[1m"

EscGreen == "ESC[32m"

EscCyan == "ESC[36m"

EscRed == "ESC[31m"

EscYellow == "ESC[33m"

EscReset == "ESC[0m"

\* colored::Colorize: the style is written when the crate colours its output
\* (a terminal, CLICOLOR_FORCE), and the string is left as it is otherwise
Styled(str, escape, colorize) ==
    IF colorize THEN <<escape>> \o str \o <<EscReset>> ELSE str

\* output_letter that tests found_from_listable first
OutputLetterScrapedFirst(response, colorize) ==
    IF response.found_from_listable THEN <<"~", " ">>
    ELSE IF response.is_directory /\ response.is_listable
    THEN Styled(<<"L", " ">>, EscBold, colorize)
    ELSE IF response.is_directory THEN <<"D", " ">>
    ELSE <<"+", " ">>

output_letter(response, colorize) ==
    IF response.is_directory /\ response.is_listable
    THEN Styled(<<"L", " ">>, EscBold, colorize)
    ELSE IF response.is_directory THEN <<"D", " ">>
    ELSE IF response.found_from_listable THEN <<"~", " ">>
    ELSE <<"+", " ">>

DigitChar(d) ==
    CASE d = 0 -> "0" [] d = 1 -> "1" [] d = 2 -> "2" [] d = 3 -> "3"
      [] d = 4 -> "4" [] d = 5 -> "5" [] d = 6 -> "6" [] d = 7 -> "7"
      [] d = 8 -> "8" [] d = 9 -> "9"

\* format!("{}", n) of an unsigned integer
RECURSIVE Decimal(_)
Decimal(n) ==
    IF n < 10 THEN <<DigitChar(n)>>
    ELSE Append(Decimal(n \div 10), DigitChar(n % 10))

\* The code as output_suffix writes it, coloured by its class
CodeString(code, color, colorize) ==
    LET code_string == Decimal(code) IN
    IF ~color THEN code_string
    ELSE IF code \in 200..299 THEN Styled(code_string, EscGreen, colorize)
    ELSE IF code \in 300..399 THEN Styled(code_string, EscCyan, colorize)
    ELSE IF code \in 400..499 THEN Styled(code_string, EscRed, colorize)
    ELSE IF code \in 500..599 THEN Styled(code_string, EscYellow, colorize)
    ELSE code_string

\* output_suffix that writes DEST whenever a redirect_url is set
OutputSuffixDestWhenSet(response, color, colorize) ==
    IF response.found_from_listable THEN <<"(", "S", "C", "R", "A", "P", "E", "D", ")">>
    ELSE LET code_string == CodeString(response.code, color, colorize)
         IN IF response.redirect_url # <<>>
            THEN <<"(", "C", "O", "D", "E", ":">> \o code_string \o <<"|", "S", "I", "Z", "E", ":">>
                   \o Decimal(response.content_len) \o <<"|", "D", "E", "S", "T", ":">>
                   \o response.redirect_url \o <<")">>
            ELSE <<"(", "C", "O", "D", "E", ":">> \o code_string \o <<"|", "S", "I", "Z", "E", ":">>
                   \o Decimal(response.content_len) \o <<")">>

output_suffix(response, color, colorize) ==
    IF response.found_from_listable THEN <<"(", "S", "C", "R", "A", "P", "E", "D", ")">>
    ELSE LET code_string == CodeString(response.code, color, colorize)
         IN IF response.code = 301 \/ response.code = 302
            THEN <<"(", "C", "O", "D", "E", ":">> \o code_string \o <<"|", "S", "I", "Z", "E", ":">>
                   \o Decimal(response.content_len) \o <<"|", "D", "E", "S", "T", ":">>
                   \o response.redirect_url \o <<")">>
            ELSE <<"(", "C", "O", "D", "E", ":">> \o code_string \o <<"|", "S", "I", "Z", "E", ":">>
                   \o Decimal(response.content_len) \o <<")">>

\* The Findings written: every combination of the three flags, codes of each
\* class, with and without a redirect_url
LineResponses ==
    {[RequestResponse(SchemeAndHost \o <<"a">>, code, is_directory, is_listable,
                      redirect_url, found_from_listable)
        EXCEPT !.content_len = content_len] :
        code \in {0, 200, 301, 302, 304, 404, 500},
        is_directory \in BOOLEAN, is_listable \in BOOLEAN,
        found_from_listable \in BOOLEAN,
        redirect_url \in {<<>>, SchemeAndHost \o <<"a", "/">>},
        content_len \in {0, 456}}

InitOutputLine ==
    /\ max_threads = 1
    /\ wordlist_split = 1
    /\ hostnames = Hostnames(1)
    /\ prefixes = Prefixes(1)
    /\ extensions = Extensions(1)
    /\ disable_validator = FALSE
    /\ pc = "output_line"
    /\ boot_i = 0
    /\ scan_queue = <<>>
    /\ threads_in_use = 0
    /\ caught_ctrl_c = FALSE
    /\ to_validate = <<>>
    /\ to_scan = <<>>
    /\ output = <<>>
    /\ workers = <<>>
    /\ profiles = [h \in 0..0 |-> "unset"]
    /\ validator_done = FALSE
    /\ output_done = FALSE
    /\ \E response \in LineResponses, color \in BOOLEAN, colorize \in BOOLEAN :
         call = [op |-> "response", response |-> response, color |-> color,
                 colorize |-> colorize]

OutputLetter ==
    /\ pc = "output_line"
    /\ call.op = "response"
    /\ call' = [call EXCEPT !.op = "output_letter"]
                  @@ [letter |-> output_letter(call.response, call.colorize)]
    /\ UNCHANGED <<max_threads, wordlist_split, hostnames, prefixes, extensions,
                   disable_validator, pc, boot_i, scan_queue, threads_in_use,
                   caught_ctrl_c, to_validate, to_scan, output, workers,
                   profiles, validator_done, output_done>>

OutputSuffix ==
    /\ pc = "output_line"
    /\ call.op = "response"
    /\ call' = [call EXCEPT !.op = "output_suffix"]
                  @@ [suffix |-> output_suffix(call.response, call.color,
                                               call.colorize)]
    /\ UNCHANGED <<max_threads, wordlist_split, hostnames, prefixes, extensions,
                   disable_validator, pc, boot_i, scan_queue, threads_in_use,
                   caught_ctrl_c, to_validate, to_scan, output, workers,
                   profiles, validator_done, output_done>>

NextOutputLine == OutputLetter \/ OutputSuffix

SpecOutputLine == InitOutputLine /\ [][NextOutputLine]_vars

-----------------------------------------------------------------------------
(* add_dir_to_scan_queue taken alone: any options, any queue it has built, *)
(* either value of first_run                                               *)

InitEnqueue ==
    /\ max_threads \in 1..EnqMaxThreads
    /\ wordlist_split \in 1..EnqMaxSplit
    /\ hostnames \in {Hostnames(n) : n \in 1..EnqMaxHosts}
    /\ prefixes \in {Prefixes(n) : n \in 1..EnqMaxPrefixes}
    /\ extensions \in {Extensions(n) : n \in 1..EnqMaxExtensions}
    /\ disable_validator = FALSE
    /\ pc = "enqueue"
    /\ boot_i = 0
    /\ scan_queue = <<>>
    /\ threads_in_use = 0
    /\ caught_ctrl_c = FALSE
    /\ to_validate = <<>>
    /\ to_scan = <<>>
    /\ output = <<>>
    /\ workers = <<>>
    /\ profiles = [h \in 0..(Len(hostnames) - 1) |-> "unset"]
    /\ validator_done = FALSE
    /\ output_done = FALSE
    /\ call = [op |-> "none"]

\* The directories handed to add_dir_to_scan_queue: the first host (with its
\* profile) and a directory found under it (without one)
EnqDirInfos ==
    {DirectoryInfo(hostnames[1], SomeValidator(TRUE), 0,
                   path_segments_count(hostnames[1])),
     DirectoryInfo(<<"h0", "w0", "">>, NoValidator, 0, 1)}

EnqueueDir ==
    /\ pc = "enqueue"
    /\ Len(scan_queue) <= EnqMaxQueue
    /\ \E first_run \in BOOLEAN, dir_info \in EnqDirInfos :
         /\ scan_queue' = add_dir_to_scan_queue(scan_queue, dir_info, first_run)
         /\ call' = [op |-> "add_dir_to_scan_queue", first_run |-> first_run,
                     dir_info |-> dir_info, before |-> scan_queue]
    /\ UNCHANGED <<max_threads, wordlist_split, hostnames, prefixes, extensions,
                   disable_validator, pc, boot_i, threads_in_use, caught_ctrl_c,
                   to_validate, to_scan, output, workers, profiles,
                   validator_done, output_done>>

NextEnqueue == EnqueueDir

SpecEnqueue == InitEnqueue /\ [][NextEnqueue]_vars

-----------------------------------------------------------------------------
(* Properties of the scheduler *)

BootPcs == {"boot_send", "boot_recv", "start_main"}

LoopPcs == {"loop_head", "try_recv", "dispatch", "term_check"}

AfterLoopPcs == {"end_output", "end_validator", "join_output", "join_validator", "done"}

\* C1: in every reachable state the busy-worker counter threads_in_use is at
\* most max_threads (a data:END never takes it below zero, where the u32
\* would wrap, and a worker is spawned only below the cap).
C1_BusyAtMostMaxThreads == threads_in_use <= max_threads

\* The cap is reached while generators are still waiting in the queue.
C1_Witness ==
    /\ pc = "term_check"
    /\ threads_in_use = max_threads
    /\ Len(workers) = max_threads
    /\ scan_queue # <<>>

\* C2: the main loop is left only at the head of an iteration that sees the
\* interrupt flag, or at a termination check that finds the scan queue empty
\* and the busy counter zero; and a termination check that finds both leaves
\* the loop, while one that finds a queued generator or a busy worker goes on.
C2_ExitIffIdle ==
    [][/\ (pc = "term_check" /\ pc' # pc)
          => (pc' = "end_output" <=> (threads_in_use = 0 /\ scan_queue = <<>>))
       /\ (pc = "term_check" /\ pc' # pc /\ pc' # "end_output")
          => pc' = "loop_head"
       /\ (pc \in LoopPcs /\ pc' \notin LoopPcs)
          => \/ pc = "term_check" /\ threads_in_use = 0 /\ scan_queue = <<>>
             \/ pc = "loop_head" /\ caught_ctrl_c]_vars

\* A run without interrupt that scanned something and left the loop idle.
C2_Witness ==
    /\ pc = "end_output"
    /\ ~caught_ctrl_c
    /\ threads_in_use = 0
    /\ scan_queue = <<>>
    /\ output # <<>>

\* C3: whenever, in or after the main loop, the scan queue is empty and the
\* busy counter is zero, no worker is running, to_validate holds nothing but
\* the scheduler's end sentinel and to_scan holds no DirectoryInfo: no work
\* is pending and none can appear.
C3_IdleIsStable ==
    (pc \in LoopPcs \cup AfterLoopPcs /\ threads_in_use = 0 /\ scan_queue = <<>>)
    => /\ workers = <<>>
       /\ \A i \in 1..Len(to_validate) : to_validate[i].url = MAIN_ENDING_URL
       /\ \A i \in 1..Len(to_scan) : ~to_scan[i].some

\* The loop was left idle after a directory found by a worker was scanned.
C3_Witness ==
    /\ pc = "end_output"
    /\ ~caught_ctrl_c
    /\ threads_in_use = 0
    /\ scan_queue = <<>>
    /\ Len(hostnames) = 1
    /\ Len(output) > WordlistLen

C5_InterruptLeavesAtOnce ==
    [][/\ (pc = "loop_head" /\ caught_ctrl_c /\ pc' # pc) => pc' = "end_output"
       /\ ((pc = "loop_head" /\ caught_ctrl_c) \/ pc \in AfterLoopPcs)
          => /\ pc' \in AfterLoopPcs \cup {pc}
             /\ threads_in_use' = threads_in_use
             /\ scan_queue' = scan_queue
             /\ Len(workers') <= Len(workers)]_vars

\* The loop was left on interrupt with generators queued and workers busy.
C5_Witness ==
    /\ pc = "end_output"
    /\ caught_ctrl_c
    /\ scan_queue # <<>>
    /\ threads_in_use > 0
    /\ workers # <<>>

\* C6: once the interrupt flag is set in the main loop, dirble_main eventually
\* returns, having sent the end sentinel to the output thread and to the
\* validator and joined both; no step of a worker is needed for that.
C6_InterruptLeadsToReturn ==
    caught_ctrl_c ~> (pc = "done" /\ output_done /\ validator_done)

\* dirble_main has returned after an interrupt while a worker was in flight.
C6_Witness ==
    /\ pc = "done"
    /\ caught_ctrl_c
    /\ workers # <<>>
    /\ scan_queue # <<>>
    /\ threads_in_use > 0

\* The shard count as the specification states it
StatedSplit(first_run) ==
    IF first_run /\ max_threads >= 3
                 /\ wordlist_split * Len(hostnames) < max_threads - 2
    THEN (max_threads - 2) \div Len(hostnames)
    ELSE wordlist_split

\* A step of the scheduler during the bootstrap
BootStep == pc' # pc \/ boot_i' # boot_i

\* C10: the bootstrap precedes all scanning.  While it lasts no worker exists
\* and nothing is counted busy; each step of its first loop sends the
\* validator one fabricated Finding for the next host, with parent_index the
\* host's index and parent_depth the number of path segments of its URL, and
\* the loop ends with the last host; each step of its second loop takes one
\* message from to_scan and enqueues with first_run = true, and the loop ends
\* with the host_count-th message; the main loop is entered from there only.
C10_BootstrapPrecedesScanning ==
    /\ [](pc \in BootPcs => /\ workers = <<>>
                            /\ threads_in_use = 0
                            /\ output = <<>>
                            /\ ~caught_ctrl_c)
    /\ [](pc = "boot_send" => /\ scan_queue = <<>>
                             /\ boot_i < Len(hostnames))
    /\ [](pc = "start_main" => to_validate = <<>> /\ to_scan = <<>>)
    /\ [][(pc = "boot_send" /\ BootStep) =>
            LET sent == to_validate'[Len(to_validate')]
                host == hostnames[boot_i + 1]
            IN /\ Len(to_validate') = Len(to_validate) + 1
               /\ SubSeq(to_validate', 1, Len(to_validate)) = to_validate
               /\ sent.url = host
               /\ sent.code = 0
               /\ sent.found_from_listable
               /\ sent.parent_index = boot_i
               /\ sent.parent_depth = Len(host) - 1
               /\ pc' = IF boot_i = Len(hostnames) - 1
                        THEN "boot_recv" ELSE "boot_send"
               /\ boot_i' = IF boot_i = Len(hostnames) - 1
                            THEN 0 ELSE boot_i + 1]_vars
    /\ [][(pc = "boot_recv" /\ BootStep) =>
            /\ to_scan # <<>>
            /\ to_scan' = Tail(to_scan)
            /\ Len(scan_queue') >= Len(scan_queue)
            /\ SubSeq(scan_queue', 1, Len(scan_queue)) = scan_queue
            /\ \A j \in (Len(scan_queue) + 1)..Len(scan_queue') :
                  /\ scan_queue'[j].shard_count = StatedSplit(TRUE)
                  /\ scan_queue'[j].url = Head(to_scan).url
            /\ pc' = IF boot_i = Len(hostnames) - 1
                     THEN "start_main" ELSE "boot_recv"
            /\ boot_i' = IF boot_i = Len(hostnames) - 1
                         THEN 0 ELSE boot_i + 1]_vars
    /\ [][(pc' \in LoopPcs /\ pc \notin LoopPcs) => pc = "start_main"]_vars

\* Both hosts were answered and enqueued, and the main loop is about to start.
C10_Witness ==
    /\ pc = "start_main"
    /\ Len(hostnames) = 2
    /\ Len(scan_queue) = 2
    /\ scan_queue[1].parent_index = 0
    /\ scan_queue[2].parent_index = 1
    /\ scan_queue[2].parent_depth = 2

\* A step in which the scheduler takes the head of to_scan
Receiving ==
    /\ pc \in {"boot_recv", "try_recv"}
    /\ to_scan # <<>>
    /\ (pc' # pc \/ boot_i' # boot_i)

\* C11: when the scheduler receives a DirectoryInfo whose profile answers
\* scan_folder = false, in the bootstrap or in the main loop, the scan queue,
\* the busy counter and the workers stay as they were; when it receives a
\* DirectoryInfo of a directory that carries no profile, generators of that
\* directory are appended to the scan queue.
C11_SkippedDirectoryChangesNothing ==
    /\ [][(/\ Receiving
            /\ Head(to_scan).some
            /\ Head(to_scan).validator.some
            /\ ~Head(to_scan).validator.scan_folder)
           => /\ scan_queue' = scan_queue
              /\ threads_in_use' = threads_in_use
              /\ workers' = workers]_vars
    /\ [][(/\ Receiving
            /\ Head(to_scan).some
            /\ Head(to_scan).url # END_URL
            /\ ~Head(to_scan).validator.some)
           => /\ Len(scan_queue') > Len(scan_queue)
              /\ SubSeq(scan_queue', 1, Len(scan_queue)) = scan_queue
              /\ \A j \in (Len(scan_queue) + 1)..Len(scan_queue') :
                    scan_queue'[j].url = Head(to_scan).url
              /\ threads_in_use' = threads_in_use]_vars

\* In the main loop, with a worker busy, the verdict scan_folder = false of a
\* directory of host 0 has been received and nothing was enqueued.
C11_Witness ==
    /\ pc = "dispatch"
    /\ profiles[0] = "noscan"
    /\ to_scan = <<>>
    /\ to_validate = <<>>
    /\ scan_queue = <<>>
    /\ threads_in_use = 1
    /\ Len(workers) = 1

\* The end sentinels the scheduler has sent to the output thread: those still
\* in the channel and the one the output thread has taken
SentinelsSent ==
    Cardinality({i \in 1..Len(output) : output[i] = "data:MAIN ENDING"})
        + (IF output_done THEN 1 ELSE 0)

\* C12: the scheduler has sent the output thread no sentinel data:MAIN ENDING
\* until it has left the main loop, and exactly one from then on, on normal
\* termination and after an interrupt; it sends it in its first step after the
\* loop, before the end sentinel of the validator, and none of its later steps
\* sends anything to the output thread.
C12_OneSentinelAfterLoop ==
    /\ [](SentinelsSent = IF pc \in AfterLoopPcs \ {"end_output"} THEN 1 ELSE 0)
    /\ []((validator_done \/ \E i \in 1..Len(to_validate) :
                                 to_validate[i].url = MAIN_ENDING_URL)
            => pc \in {"join_output", "join_validator", "done"})
    /\ [][(pc' = "end_output" /\ pc # "end_output") => pc \in LoopPcs]_vars
    /\ [][(pc = "end_output" /\ pc' # pc)
            => /\ output' = Append(output, "data:MAIN ENDING")
               /\ to_validate' = to_validate
               /\ pc' = "end_validator"]_vars
    /\ [][(pc = "end_validator" /\ pc' # pc)
            => /\ to_validate' = Append(to_validate, generate_end)
               /\ output' = output
               /\ pc' = "join_output"]_vars
    /\ [][(pc \in AfterLoopPcs \ {"end_output"} /\ pc' # pc)
            => /\ output' = output
               /\ pc' \in AfterLoopPcs \ {"end_output"}]_vars

\* A run without interrupt has ended: the sentinel follows a Finding of a
\* worker in the output channel.
C12_Witness ==
    /\ pc = "join_output"
    /\ ~caught_ctrl_c
    /\ output = <<"finding", "data:MAIN ENDING">>

\* The sentinel was sent after an interrupt, a worker still running.
C12_WitnessInterrupt ==
    /\ pc = "join_output"
    /\ caught_ctrl_c
    /\ workers # <<>>
    /\ SentinelsSent = 1

\* C24 as stated: when the receive step of an iteration ends, nothing of what
\* was in to_scan when it started is left in the channel.
C24_ReceiveStepDrainsChannel ==
    [][(pc = "try_recv" /\ pc' # pc) => to_scan' = <<>>]_vars

\* C24: the receive step of an iteration takes at most one message, the head
\* of to_scan if there is one, and processes it before the dispatch step (a
\* data:END decrements the busy counter, a directory is enqueued or dropped);
\* what was behind it stays in the channel.
C24_ReceiveStepTakesOneMessage ==
    [][(pc = "try_recv" /\ pc' # pc) =>
          /\ pc' = "dispatch"
          /\ to_scan' = (IF to_scan = <<>> THEN <<>> ELSE Tail(to_scan))
          /\ IF to_scan = <<>> \/ ~Head(to_scan).some
             THEN scan_queue' = scan_queue /\ threads_in_use' = threads_in_use
             ELSE IF Head(to_scan).url = END_URL
             THEN /\ scan_queue' = scan_queue
                  /\ threads_in_use' = threads_in_use - 1
             ELSE /\ threads_in_use' = threads_in_use
                  /\ SubSeq(scan_queue', 1, Len(scan_queue)) = scan_queue
                  /\ (Len(scan_queue') > Len(scan_queue))
                        <=> (Head(to_scan).validator.some
                                => Head(to_scan).validator.scan_folder)]_vars

\* The scheduler is at its receive step and two messages wait in to_scan.
C24_Witness ==
    /\ pc = "try_recv"
    /\ Len(to_scan) = 2
    /\ to_scan[1].url # END_URL
    /\ to_scan[2].url = END_URL

\* C25 as stated: when the dispatch step ends the busy counter is max_threads
\* or the scan queue is empty.
C25_DispatchStepFillsThreads ==
    [][(pc = "dispatch" /\ pc' # pc)
          => (threads_in_use' = max_threads \/ scan_queue' = <<>>)]_vars

\* C25: the dispatch step of an iteration spawns one worker, on the head of
\* the scan queue, when busy < max_threads and the queue is not empty, and
\* none otherwise; the generators behind the head stay in the queue.
C25_DispatchStepSpawnsOneWorker ==
    [][(pc = "dispatch" /\ pc' # pc) =>
          /\ pc' = "term_check"
          /\ IF threads_in_use < max_threads /\ scan_queue # <<>>
             THEN /\ threads_in_use' = threads_in_use + 1
                  /\ scan_queue' = Tail(scan_queue)
                  /\ Len(workers') = Len(workers) + 1
                  /\ workers'[Len(workers')].gen = Head(scan_queue)
             ELSE /\ threads_in_use' = threads_in_use
                  /\ scan_queue' = scan_queue
                  /\ workers' = workers]_vars

\* The dispatch step has ended with a thread free and a generator waiting.
C25_Witness ==
    /\ pc = "term_check"
    /\ max_threads - threads_in_use >= 2
    /\ threads_in_use >= 1
    /\ scan_queue # <<>>

\* C26: the scan queue is FIFO. Every step that changes it either removes its
\* head, which is the generator the worker spawned by that step gets, or adds
\* the generators of one directory behind everything already queued; so the
\* generators are dispatched in the order of their enqueueing, those of a
\* directory received earlier before those of one received later.
C26_ScanQueueIsFifo ==
    [][scan_queue' # scan_queue =>
          \/ /\ pc = "dispatch"
             /\ scan_queue # <<>>
             /\ scan_queue' = Tail(scan_queue)
             /\ Len(workers') = Len(workers) + 1
             /\ workers'[Len(workers')].gen = Head(scan_queue)
          \/ /\ pc \in {"boot_recv", "try_recv"}
             /\ to_scan # <<>>
             /\ Len(scan_queue') > Len(scan_queue)
             /\ SubSeq(scan_queue', 1, Len(scan_queue)) = scan_queue
             /\ \A i \in (Len(scan_queue) + 1)..Len(scan_queue') :
                   scan_queue'[i].url = Head(to_scan).url]_vars

\* A worker was dispatched from a queue that held generators of an earlier and
\* of a later directory: the queue now starts with a generator of a directory
\* other than the one at its end.
C26_Witness ==
    /\ pc = "term_check"
    /\ workers # <<>>
    /\ Len(scan_queue) >= 2
    /\ scan_queue[1].url # scan_queue[Len(scan_queue)].url

\* The data:END messages of a channel
EndsIn(channel) ==
    Cardinality({i \in 1..Len(channel) : channel[i].url = END_URL})

\* C28: the busy counter starts at zero, goes up by one with every worker
\* spawned and down by one with every data:END the scheduler receives, and is
\* changed by nothing else, so it is the number of workers spawned minus the
\* number of data:END received; a data:END leaves the scan queue as it is and
\* is never received with the counter at zero. Until the scheduler leaves its
\* loop the counter is the number of workers running plus the data:END on
\* their way through the validator, in every interleaving.
C28_BusyIsSpawnedMinusEnded ==
    /\ threads_in_use = 0
    /\ [](pc \notin AfterLoopPcs
            => threads_in_use = Len(workers) + EndsIn(to_validate) + EndsIn(to_scan))
    /\ [][LET spawned == Len(workers') = Len(workers) + 1
              end_received == /\ pc = "try_recv"
                              /\ pc' # pc
                              /\ to_scan # <<>>
                              /\ Head(to_scan).some
                              /\ Head(to_scan).url = END_URL
          IN /\ threads_in_use' = threads_in_use + (IF spawned THEN 1 ELSE 0)
                                                 - (IF end_received THEN 1 ELSE 0)
             /\ end_received => /\ threads_in_use > 0
                                /\ scan_queue' = scan_queue
                                /\ to_scan' = Tail(to_scan)]_vars

\* Both hosts were accepted and their generators dispatched; the data:END of
\* one worker has been received and the other worker is still running.
C28_Witness ==
    /\ pc = "dispatch"
    /\ Len(hostnames) = 2
    /\ \A h \in DOMAIN profiles : profiles[h] = "scan"
    /\ scan_queue = <<>>
    /\ to_validate = <<>>
    /\ to_scan = <<>>
    /\ Len(workers) = 1
    /\ threads_in_use = 1

\* The run has ended the normal way: the loop was left with nothing queued
\* and no worker counted busy
EndedIdle == pc \in AfterLoopPcs /\ threads_in_use = 0 /\ scan_queue = <<>>

\* C29: a run that is not interrupted leaves the loop at the termination
\* check, idle; from then on no worker is running, nothing is added to the
\* findings channel but the scheduler's one sentinel, no Finding is behind the
\* sentinel in the channel, and none is left in it once the output thread has
\* taken the sentinel: every Finding was sent before the sentinel.
C29_FindingsPrecedeSentinel ==
    /\ [][(pc = "term_check" /\ pc' = "end_output")
             => threads_in_use = 0 /\ scan_queue = <<>> /\ workers = <<>>]_vars
    /\ [](EndedIdle
            => /\ workers = <<>>
               /\ \A i, j \in 1..Len(output) :
                     (output[i] = "data:MAIN ENDING" /\ output[j] = "finding") => j < i
               /\ output_done => output = <<>>)
    /\ [][(EndedIdle /\ Len(output') > Len(output))
             => /\ pc = "end_output"
                /\ output' = Append(output, "data:MAIN ENDING")]_vars

\* A run without interrupt: the Findings of the workers wait in the channel,
\* the sentinel behind them all, and no worker is left.
C29_Witness ==
    /\ pc = "end_validator"
    /\ ~caught_ctrl_c
    /\ workers = <<>>
    /\ Len(output) >= 3
    /\ output[Len(output)] = "data:MAIN ENDING"
    /\ \A i \in 1..(Len(output) - 1) : output[i] = "finding"

-----------------------------------------------------------------------------
(* Properties of add_dir_to_scan_queue *)

\* The generators the last call of add_dir_to_scan_queue put in the queue
NewGenerators == SubSeq(scan_queue, Len(call.before) + 1, Len(scan_queue))

\* C7: the generators add_dir_to_scan_queue creates carry the shard count
\* floor((max_threads - 2) / host_count) when first_run is set, max_threads >= 3
\* and wordlist_split * host_count < max_threads - 2, and the configured
\* wordlist_split otherwise (always so when first_run is false); with
\* max_threads = 4, wordlist_split = 1 and one host the first run enqueues two
\* shards per (prefix, extension).
C7_EffectiveShardCount ==
    call.op = "add_dir_to_scan_queue" =>
        /\ NewGenerators # <<>>
        /\ \A j \in 1..Len(NewGenerators) :
              NewGenerators[j].shard_count = StatedSplit(call.first_run)
        /\ ~call.first_run =>
              \A j \in 1..Len(NewGenerators) :
                 NewGenerators[j].shard_count = wordlist_split
        /\ (call.first_run /\ max_threads = 4 /\ wordlist_split = 1
                           /\ Len(hostnames) = 1)
              => /\ Len(NewGenerators) = 2 * Len(prefixes) * Len(extensions)
                 /\ \A j \in 1..Len(NewGenerators) :
                       NewGenerators[j].shard_count = 2

\* The boost applied: four threads, split 1, one host, first run.
C7_Witness ==
    /\ call.op = "add_dir_to_scan_queue"
    /\ call.first_run
    /\ max_threads = 4
    /\ wordlist_split = 1
    /\ Len(hostnames) = 1
    /\ Len(prefixes) = 1
    /\ Len(extensions) = 1
    /\ Len(NewGenerators) = 2

\* C30: when the boost applies (first run, max_threads >= 3, wordlist_split
\* >= 1 and wordlist_split * host_count < max_threads - 2) the shard count
\* given to the generators is at least 1, at least the configured
\* wordlist_split, and times the number of hosts at most max_threads - 2; with
\* max_threads below 3 the difference max_threads - 2 is not used at all (in
\* u32 it would wrap for max_threads < 2 and look like ample headroom): the
\* generators get the configured wordlist_split.
C30_BoostWithinHeadroom ==
    call.op = "add_dir_to_scan_queue" =>
        \A j \in 1..Len(NewGenerators) :
            LET boosted == NewGenerators[j].shard_count
                host_count == Len(hostnames)
            IN /\ (/\ call.first_run
                   /\ max_threads >= 3
                   /\ wordlist_split >= 1
                   /\ wordlist_split * host_count < max_threads - 2)
                     => /\ boosted >= 1
                        /\ boosted >= wordlist_split
                        /\ boosted * host_count <= max_threads - 2
               /\ max_threads < 3 => boosted = wordlist_split

\* The boost applied with a quotient that is not exact: five threads, two
\* hosts, split 1; the three threads of headroom give one shard per host.
C30_Witness ==
    /\ call.op = "add_dir_to_scan_queue"
    /\ call.first_run
    /\ max_threads = 5
    /\ wordlist_split = 1
    /\ Len(hostnames) = 2
    /\ NewGenerators # <<>>
    /\ NewGenerators[1].shard_count = 1

\* The first run with a single thread: no boost, the configured split.
C30_WitnessOneThread ==
    /\ call.op = "add_dir_to_scan_queue"
    /\ call.first_run
    /\ max_threads = 1
    /\ wordlist_split = 2
    /\ NewGenerators # <<>>
    /\ NewGenerators[1].shard_count = 2

\* The generators of the last call that belong to a (prefix, extension) pair
GeneratorsOfPair(p, e) ==
    {j \in 1..Len(NewGenerators) :
        /\ NewGenerators[j].prefix = prefixes[p]
        /\ NewGenerators[j].extension = extensions[e]}

\* A generator yields wordlist position i iff i mod shard_count = shard_start
Yields(gen, i) == i % gen.shard_count = gen.start_index

\* C8: for every (prefix, extension) pair the generators of one call all have
\* the same shard count k, their start indices are 0 .. k-1, each once, and
\* every wordlist position is yielded by exactly one of them.
C8_ShardingIsPartition ==
    call.op = "add_dir_to_scan_queue" =>
        \A p \in 1..Len(prefixes), e \in 1..Len(extensions) :
            LET G == GeneratorsOfPair(p, e)
                k == Cardinality(G)
            IN /\ k >= 1
               /\ \A j \in G : NewGenerators[j].shard_count = k
               /\ {NewGenerators[j].start_index : j \in G} = 0..(k - 1)
               /\ \A i \in 0..(EnqPositions - 1) :
                     Cardinality({j \in G : Yields(NewGenerators[j], i)}) = 1

\* A boosted first run: more shards than configured, over two prefixes.
C8_Witness ==
    /\ call.op = "add_dir_to_scan_queue"
    /\ call.first_run
    /\ Len(prefixes) = 2
    /\ Len(extensions) = 2
    /\ Cardinality(GeneratorsOfPair(2, 1)) = 3
    /\ wordlist_split = 1

\* C9: one call appends |prefixes| x |extensions| x k generators to the tail
\* of the queue, the one of (prefix p, extension e, shard s) at position
\* ((p-1) |extensions| + (e-1)) k + s + 1 of the appended part, and leaves the
\* generators that were in the queue where they were.
C9_AppendsInOrder ==
    call.op = "add_dir_to_scan_queue" =>
        LET k == StatedSplit(call.first_run)
            nE == Len(extensions)
        IN /\ Len(scan_queue) = Len(call.before) + Len(prefixes) * nE * k
           /\ SubSeq(scan_queue, 1, Len(call.before)) = call.before
           /\ \A p \in 1..Len(prefixes), e \in 1..nE, s \in 0..(k - 1) :
                 scan_queue[Len(call.before) + ((p - 1) * nE + (e - 1)) * k + s + 1]
                    = [url |-> call.dir_info.url,
                       prefix |-> prefixes[p],
                       extension |-> extensions[e],
                       start_index |-> s,
                       shard_count |-> k,
                       parent_index |-> call.dir_info.parent_index,
                       parent_depth |-> call.dir_info.parent_depth,
                       validator |-> call.dir_info.validator]

\* A second directory was appended behind the generators of a first one.
C9_Witness ==
    /\ call.op = "add_dir_to_scan_queue"
    /\ call.before # <<>>
    /\ call.before[1].url # call.dir_info.url
    /\ Len(prefixes) = 2
    /\ Len(extensions) = 2
    /\ StatedSplit(call.first_run) = 2
    /\ Len(scan_queue) = Len(call.before) + 8

-----------------------------------------------------------------------------
(* Properties of the wordlist *)

\* The normalised wordlist is sorted and has no entry twice.
SortedNoDuplicates ==
    call.op = "wordlist" =>
        \A i, j \in 1..Len(call.wordlist) :
            i < j => LexLess(call.wordlist[i], call.wordlist[j])

\* C13: for every list of lines, the normalised wordlist is sorted, contains
\* no entry twice, and none of its entries begins or ends with '/'.
C13_WordlistNormalised ==
    /\ SortedNoDuplicates
    /\ call.op = "wordlist" =>
          \A i \in 1..Len(call.wordlist) :
              LET word == call.wordlist[i]
              IN word # <<>> => word[1] # "/" /\ word[Len(word)] # "/"

-----------------------------------------------------------------------------
(* Properties of make_request *)

\* make_request has returned a response
Built == call.op = "make_request" /\ ~call.result.panicked

\* C14: a response make_request builds with code 301 or 302 has is_directory
\* set exactly when the percent-decoded Location equals the percent-decoded
\* requested URL followed by '/', and holds the decoded Location in
\* redirect_url; a response with any other code has is_directory false and an
\* empty redirect_url.
C14_RedirectToSlashIsDirectory ==
    Built =>
        LET r == call.result.response IN
        IF r.code \in {301, 302}
        THEN /\ r.is_directory <=>
                   (percent_decode(call.performed.redirect_url.dest)
                      = percent_decode(call.url \o <<"/">>))
             /\ r.redirect_url = percent_decode(call.performed.redirect_url.dest)
        ELSE /\ ~r.is_directory
             /\ r.redirect_url = <<>>

\* http://h/%61 answered 301 with Location http://h/a/: a directory, the two
\* being equal once decoded only.
C14_Witness ==
    /\ Built
    /\ call.url = SchemeAndHost \o <<"%", "6", "1">>
    /\ call.performed.ok
    /\ call.performed.code = 301
    /\ call.performed.redirect_url.some
    /\ call.performed.redirect_url.dest = SchemeAndHost \o <<"a", "/">>
    /\ call.result.response.is_directory
    /\ call.result.response.redirect_url = SchemeAndHost \o <<"a", "/">>

\* C15: on an error of the transport make_request returns a Finding of the
\* requested URL with code 0, content_len 0, is_directory and is_listable
\* false, an empty redirect_url and found_from_listable false; it does not
\* fail.
C15_TransportErrorIsCodeZero ==
    (call.op = "make_request" /\ ~call.performed.ok) =>
        /\ ~call.result.panicked
        /\ call.result.response.url = call.url
        /\ call.result.response.code = 0
        /\ call.result.response.content_len = 0
        /\ ~call.result.response.is_directory
        /\ ~call.result.response.is_listable
        /\ call.result.response.redirect_url = <<>>
        /\ ~call.result.response.found_from_listable

\* The request of http://h/a/ failed in the transport and a Finding came back.
C15_Witness ==
    /\ call.op = "make_request"
    /\ ~call.performed.ok
    /\ call.url = SchemeAndHost \o <<"a", "/">>
    /\ ~call.result.panicked
    /\ call.result.response.code = 0

-----------------------------------------------------------------------------
(* Properties of listable_check *)

\* The bodies that hold a marker once lowercased
StatedListableBodies ==
    {<<"P", "a", "r", "e", "n", "t", " ", "D", "i", "r", "e", "c", "t", "o", "r", "y">>,
     <<"U", "p", " ", "T", "o", " ", "/">>,
     <<"D", "i", "r", "e", "c", "t", "o", "r", "y", " ", "L", "i", "s", "t", "i", "n", "g", " ", "F", "o", "r", " ", "/">>}

\* The depth listable_check measures a scraped directory URL by
ScrapedDepth(url) == slash_count(url) - 1 - call.parent_depth

\* The entries of the returned list that listable_check requested itself
RequestedEntries ==
    {j \in 1..Len(call.output_list) : ~call.output_list[j].found_from_listable}

\* C16: the Finding of a directory listable_check has requested (URL with a
\* trailing '/') has is_listable set exactly when the GET returned code 200
\* and the body, lowercased, holds one of the three markers.
C16_ListableIffMarkerIn200 ==
    call.op = "listable_check" =>
        /\ 1 \in RequestedEntries
        /\ call.output_list[1].url =
              (IF ends_with_slash(call.original_url)
               THEN call.original_url ELSE call.original_url \o <<"/">>)
        /\ \A j \in RequestedEntries :
              LET r == call.output_list[j]
                  page == Page(call.easy, r.url)
              IN /\ ends_with_slash(r.url)
                 /\ r.is_listable <=> /\ page.performed.ok
                                       /\ page.performed.code = 200
                                       /\ page.body \in StatedListableBodies

\* http://h/b, whose index page answers 200 with "Up To /", is found listable.
C16_Witness ==
    /\ call.op = "listable_check"
    /\ call.original_url = SchemeAndHost \o <<"b">>
    /\ Page(call.easy, SchemeAndHost \o <<"b", "/">>).body = <<"U", "p", " ", "T", "o", " ", "/">>
    /\ call.output_list[1].url = SchemeAndHost \o <<"b", "/">>
    /\ call.output_list[1].code = 200
    /\ call.output_list[1].is_listable

\* C17: an entry listable_check returns without having requested it is there
\* only when scraping is enabled and the directory it was scraped from was
\* found listable; it has code 0, content_len 0 and found_from_listable true;
\* the Finding of the directory itself, and every entry that carries a code,
\* a length or the listable flag of a response, has found_from_listable false.
C17_ScrapedEntriesAreFabricated ==
    call.op = "listable_check" =>
        /\ ~call.output_list[1].found_from_listable
        /\ \A j \in 1..Len(call.output_list) :
              LET r == call.output_list[j] IN
              IF r.found_from_listable
              THEN /\ call.scrape_listable
                   /\ r.code = 0
                   /\ r.content_len = 0
                   /\ ~r.is_listable
                   /\ r.redirect_url = <<>>
                   /\ \E i \in 1..(j - 1), name \in {<<"a">>, <<"b", "/">>} :
                         /\ i \in RequestedEntries
                         /\ call.output_list[i].is_listable
                         /\ r.url = call.output_list[i].url \o name
              ELSE /\ r.code = (IF Page(call.easy, r.url).performed.ok
                                THEN Page(call.easy, r.url).performed.code
                                ELSE 0)
                   /\ (j > 1 => call.scrape_listable)
        /\ (~call.scrape_listable \/ ~call.output_list[1].is_listable)
              => Len(call.output_list) = 1

\* The listable directory http://h/ gave the scraped file http://h/a.
C17_Witness ==
    /\ call.op = "listable_check"
    /\ call.original_url = SchemeAndHost
    /\ call.scrape_listable
    /\ call.output_list[1].is_listable
    /\ Len(call.output_list) >= 2
    /\ call.output_list[2].url = SchemeAndHost \o <<"a">>
    /\ call.output_list[2].found_from_listable
    /\ call.output_list[2].code = 0

\* C18: with max_recursion_depth set, every scraped directory listable_check
\* has requested, at any level, has a depth of at most max_recursion_depth;
\* a scraped directory deeper than that is in the list as a fabricated
\* directory Finding and was not requested; a scraped directory is fabricated
\* for that reason only.
C18_RecursionWithinMaxDepth ==
    call.op = "listable_check" =>
        /\ \A j \in RequestedEntries :
              (j > 1 /\ call.max_recursion_depth.some)
                 => ScrapedDepth(call.output_list[j].url)
                       <= call.max_recursion_depth.max_depth
        /\ \A j \in 1..Len(call.output_list) :
              LET r == call.output_list[j] IN
              (r.found_from_listable /\ ends_with_slash(r.url))
                 => /\ call.max_recursion_depth.some
                    /\ ScrapedDepth(r.url) > call.max_recursion_depth.max_depth
                    /\ r.is_directory
                    /\ r.code = 0
        /\ \A i \in RequestedEntries :
              LET scraped == call.output_list[i].url \o <<"b", "/">> IN
              (/\ call.scrape_listable
               /\ call.output_list[i].is_listable
               /\ Page(call.easy, call.output_list[i].url).names # <<>>)
                 => \E j \in (i + 1)..Len(call.output_list) :
                       /\ call.output_list[j].url = scraped
                       /\ call.output_list[j].found_from_listable
                             <=> /\ call.max_recursion_depth.some
                                 /\ ScrapedDepth(scraped)
                                       > call.max_recursion_depth.max_depth
                       /\ \A k \in 1..Len(call.output_list) :
                             call.output_list[k].url = scraped => k = j

\* With max_recursion_depth 3 and parent_depth 1 the walk from http://h/ has
\* requested http://h/b/b/ (depth 3) and fabricated http://h/b/b/b/ (depth 4).
C18_Witness ==
    /\ call.op = "listable_check"
    /\ call.original_url = SchemeAndHost
    /\ call.max_recursion_depth = SomeMaxDepth(3)
    /\ call.parent_depth = 1
    /\ \E j \in RequestedEntries :
          call.output_list[j].url = SchemeAndHost \o <<"b", "/", "b", "/">>
    /\ \E j \in 1..Len(call.output_list) :
          /\ call.output_list[j].url
                = SchemeAndHost \o <<"b", "/", "b", "/", "b", "/">>
          /\ call.output_list[j].found_from_listable
          /\ call.output_list[j].is_directory

\* C27: every Finding with code 301 or 302 that listable_check returns, the
\* Finding of the directory GET included, has is_directory set exactly when
\* its percent-decoded redirect_url equals its percent-decoded url followed
\* by '/' (make_request alone: C14).
C27_RedirectFlagOfEveryFinding ==
    call.op = "listable_check" =>
        \A j \in 1..Len(call.output_list) :
            LET r == call.output_list[j] IN
            r.code \in {301, 302}
               => (r.is_directory <=>
                      (percent_decode(r.redirect_url)
                         = percent_decode(r.url \o <<"/">>)))

-----------------------------------------------------------------------------
(* Properties of the depth and of the indentation *)

\* The depth as the specification states it, before clamping
StatedDepth(url, parent_depth) ==
    slash_count(url) - (IF url[Len(url)] = "/" THEN 1 ELSE 0) - parent_depth - 1

\* The levels of indentation written: two spaces each
IndentLevels ==
    Cardinality({i \in 1..Len(call.indent) : call.indent[i] = " "}) \div 2

-----------------------------------------------------------------------------
(* Properties of the letter and of the suffix *)

\* A string as it is read, without the escape sequences of the terminal
Visible(str) ==
    SelectSeq(str, LAMBDA c : c \notin {EscBold, EscGreen, EscCyan, EscRed,
                                        EscYellow, EscReset})

\* C22: the letter of a Finding is 'L ' if is_directory and is_listable,
\* otherwise 'D ' if is_directory, otherwise '~ ' if found_from_listable,
\* otherwise '+ ', for the eight combinations of the flags; a directory
\* scraped from a listing has 'D ' or 'L ', never '~ '.
C22_LetterByPriority ==
    call.op = "output_letter" =>
        LET r == call.response IN
        /\ Visible(call.letter) =
              (CASE r.is_directory /\ r.is_listable -> <<"L", " ">>
                 [] r.is_directory /\ ~r.is_listable -> <<"D", " ">>
                 [] ~r.is_directory /\ r.found_from_listable -> <<"~", " ">>
                 [] ~r.is_directory /\ ~r.found_from_listable -> <<"+", " ">>)
        /\ (r.is_directory /\ r.found_from_listable)
              => Visible(call.letter) \in {<<"D", " ">>, <<"L", " ">>}

\* A directory scraped from a listing is written with the letter D.
C22_Witness ==
    /\ call.op = "output_letter"
    /\ call.response.is_directory
    /\ ~call.response.is_listable
    /\ call.response.found_from_listable
    /\ call.letter = <<"D", " ">>

\* C23: the suffix of a Finding is (SCRAPED) when found_from_listable is set,
\* whatever the code; otherwise (CODE:n|SIZE:len|DEST:redirect_url) when the
\* code is 301 or 302 and (CODE:n|SIZE:len) for any other code, even with a
\* redirect_url set.
C23_SuffixByCode ==
    call.op = "output_suffix" =>
        LET r == call.response IN
        Visible(call.suffix) =
            (IF r.found_from_listable THEN <<"(", "S", "C", "R", "A", "P", "E", "D", ")">>
             ELSE IF r.code \in {301, 302}
             THEN <<"(", "C", "O", "D", "E", ":">> \o Decimal(r.code) \o <<"|", "S", "I", "Z", "E", ":">>
                    \o Decimal(r.content_len) \o <<"|", "D", "E", "S", "T", ":">>
                    \o r.redirect_url \o <<")">>
             ELSE <<"(", "C", "O", "D", "E", ":">> \o Decimal(r.code) \o <<"|", "S", "I", "Z", "E", ":">>
                    \o Decimal(r.content_len) \o <<")">>)

\* A 304 with a redirect_url set is written (CODE:304|SIZE:456).
C23_Witness ==
    /\ call.op = "output_suffix"
    /\ call.response.code = 304
    /\ call.response.redirect_url # <<>>
    /\ ~call.response.found_from_listable
    /\ call.response.content_len = 456
    /\ ~call.color
    /\ call.suffix = <<"(", "C", "O", "D", "E", ":", "3", "0", "4", "|", "S", "I", "Z", "E", ":", "4", "5", "6", ")">>

-----------------------------------------------------------------------------
(* Termination of a run without interrupt *)

\* C31: without interrupt, every worker coming to its data:END, the scheduler
\* eventually leaves the main loop and returns, with the scan queue empty, the
\* busy counter at zero and no worker left; and a generator leaves the scan
\* queue only from its head and only into the one worker spawned by that step.
\* Every generator enqueued is therefore dispatched, once, to one worker.
C31_EveryGeneratorDispatchedThenReturn ==
    /\ <>[](/\ pc = "done"
            /\ scan_queue = <<>>
            /\ threads_in_use = 0
            /\ workers = <<>>)
    /\ [][Len(scan_queue') < Len(scan_queue)
             => /\ pc = "dispatch"
                /\ scan_queue' = Tail(scan_queue)
                /\ Len(workers') = Len(workers) + 1
                /\ workers'[Len(workers')].gen = Head(scan_queue)
                /\ SubSeq(workers', 1, Len(workers)) = workers]_vars
    /\ [][Len(workers') > Len(workers)
             => /\ Len(scan_queue') = Len(scan_queue) - 1
                /\ workers'[Len(workers')].idx = Head(scan_queue).start_index]_vars

\* dirble_main has returned from a run without interrupt in which both hosts
\* were accepted: the generators of both were dispatched and their workers
\* have ended.
C31_Witness ==
    /\ pc = "done"
    /\ ~caught_ctrl_c
    /\ Len(hostnames) = 2
    /\ \A h \in DOMAIN profiles : profiles[h] = "scan"
    /\ scan_queue = <<>>
    /\ threads_in_use = 0
    /\ workers = <<>>
    /\ output_done
    /\ validator_done

====
